---- MODULE Spec2Model ----
(***************************************************************************)
(* A model of the AiMo Router plugin: the configuration resolver           *)
(* (utils/config.ts), the signer factory (utils/signer.ts), provider       *)
(* creation (providers/aimo-router.ts) and the text / object model         *)
(* handlers (models/text.ts, models/object.ts).                            *)
(*                                                                         *)
(* JavaScript strings are sequences of one-character strings, so that      *)
(* toLowerCase, includes, the key regular expression and base58 decoding   *)
(* are computed character by character.                                    *)
(***************************************************************************)
EXTENDS Integers, Sequences, FiniteSets, TLC

VARIABLES
    store,      \* runtime.getSetting: key -> JS value (the host's settings)
    env,        \* process.env: key -> undefined or a string
    isBrowser,  \* globalThis.document is present
    calls,      \* the model-handler invocations, one record per call
    changes,    \* number of setting changes made so far
    plugin,     \* the plugin's initialization: position, log and outcome
    pc,         \* position of the function-application specifications
    input,      \* the arguments drawn for a function application
    output      \* what the applied function returned or threw

vars == <<store, env, isBrowser, calls, changes, plugin, pc, input, output>>

(***************************************************************************)
(* Characters and strings                                                  *)
(***************************************************************************)
UpperCase == <<"A","B","C","D","E","F","G","H","I","J","K","L","M","N","O","P","Q","R","S","T","U","V","W","X","Y","Z">>
LowerCase == <<"a","b","c","d","e","f","g","h","i","j","k","l","m","n","o","p","q","r","s","t","u","v","w","x","y","z">>
Digits == <<"0","1","2","3","4","5","6","7","8","9">>
Base58Alphabet == <<"1","2","3","4","5","6","7","8","9","A","B","C","D","E","F","G","H","J","K","L","M","N","P","Q","R","S","T","U","V","W","X","Y","Z","a","b","c","d","e","f","g","h","i","j","k","m","n","o","p","q","r","s","t","u","v","w","x","y","z">>

Range(seq) == {seq[i] : i \in 1..Len(seq)}

Rep(c, n) == [i \in 1..n |-> c]

IndexOf(seq, c) == CHOOSE i \in 1..Len(seq) : seq[i] = c

\* String.prototype.toLowerCase on the ASCII range
toLowerCase(s) ==
    [i \in 1..Len(s) |->
        IF s[i] \in Range(UpperCase) THEN LowerCase[IndexOf(UpperCase, s[i])] ELSE s[i]]

\* String.prototype.toUpperCase on the ASCII range
toUpperCase(s) ==
    [i \in 1..Len(s) |->
        IF s[i] \in Range(LowerCase) THEN UpperCase[IndexOf(LowerCase, s[i])] ELSE s[i]]

\* String.prototype.includes
includes(s, sub) ==
    \E i \in 0..(Len(s) - Len(sub)) : SubSeq(s, i + 1, i + Len(sub)) = sub

svm == <<"s","v","m">>
evm == <<"e","v","m">>
devnet == <<"d","e","v","n","e","t">>
sepolia == <<"s","e","p","o","l","i","a">>
s11155111 == <<"1","1","1","5","5","1","1","1">>

\* The chain identifiers of @aimo.network/svm and @aimo.network/evm, as the
\* README lists them.
SOLANA_MAINNET_CHAIN_ID == <<"s","o","l","a","n","a",":","5","e","y","k","t","4","U","s","F","v","8","P","8","N","J","d","T","R","E","p","Y","1","v","z","q","K","q","Z","K","v","d","p">>
SOLANA_DEVNET_CHAIN_ID == <<"s","o","l","a","n","a",":","E","t","W","T","R","A","B","Z","a","Y","q","6","i","M","f","e","Y","K","o","u","R","u","1","6","6","V","U","2","x","q","a","1">>
SOLANA_TESTNET_CHAIN_ID == <<"s","o","l","a","n","a",":","4","u","h","c","V","J","y","U","9","p","J","k","v","Q","y","S","8","8","u","R","D","i","s","w","H","X","S","C","k","Y","3","z">>
EVM_MAINNET_CHAIN_ID == <<"e","i","p","1","5","5",":","1">>
SEPOLIA_CHAIN_ID == <<"e","i","p","1","5","5",":","1","1","1","5","5","1","1","1">>

(***************************************************************************)
(* JavaScript values: undefined, null, strings, numbers, booleans          *)
(***************************************************************************)
Undefined == [t |-> "undefined", s |-> <<>>, n |-> 0]
Null == [t |-> "null", s |-> <<>>, n |-> 0]
Str(s) == [t |-> "string", s |-> s, n |-> 0]
Num(n) == [t |-> "number", s |-> <<>>, n |-> n]
Bool(b) == [t |-> "boolean", s |-> <<>>, n |-> IF b THEN 1 ELSE 0]

RECURSIVE DecimalDigits(_)
DecimalDigits(n) ==
    IF n < 10 THEN <<Digits[n + 1]>>
    ELSE Append(DecimalDigits(n \div 10), Digits[(n % 10) + 1])

\* String(value) for the value kinds a setting can hold
String(value) ==
    CASE value.t = "string" -> value.s
      [] value.t = "number" ->
            IF value.n < 0 THEN <<"-">> \o DecimalDigits(-value.n) ELSE DecimalDigits(value.n)
      [] value.t = "boolean" ->
            IF value.n = 1 THEN <<"t","r","u","e">> ELSE <<"f","a","l","s","e">>
      [] value.t = "null" -> <<"n","u","l","l">>
      [] OTHER -> <<"u","n","d","e","f","i","n","e","d">>

\* JavaScript truthiness of undefined, null and strings
Truthy(value) ==
    CASE value.t = "string" -> value.s # <<>>
      [] value.t = "number" -> value.n # 0
      [] value.t = "boolean" -> value.n = 1
      [] OTHER -> FALSE

\* a ?? b
Nullish(a, b) == IF a.t \in {"undefined", "null"} THEN b ELSE a

\* a || b
OrElse(a, b) == IF Truthy(a) THEN a ELSE b

\* The outcome of a call: a returned value or a thrown error
NoError == [message |-> "", walletType |-> Undefined, expectedFormat |-> ""]
Err(message) == [message |-> message, walletType |-> Undefined, expectedFormat |-> ""]
Return(v) == [threw |-> FALSE, val |-> v, err |-> NoError]
Throw(e) == [threw |-> TRUE, val |-> Undefined, err |-> e]

(***************************************************************************)
(* utils/signer.ts: key format validation                                  *)
(***************************************************************************)
\* decoded.length === 64
SvmKeyBytes == 64
\* {64} in the EVM key pattern
EvmHexDigits == 64

\* One step of base-x decoding: bytes * 58 + carry over little-endian bytes,
\* the carry out appended as the top byte.  The byte loop is split in halves
\* (the carry of the low half enters the high half).
RECURSIVE MulAdd(_, _)
MulAdd(bytes, carry) ==
    IF Len(bytes) = 0 THEN <<carry>>
    ELSE IF Len(bytes) = 1
    THEN LET v == bytes[1] * Len(Base58Alphabet) + carry
         IN  <<v % 256, v \div 256>>
    ELSE LET h == Len(bytes) \div 2
             lo == MulAdd(SubSeq(bytes, 1, h), carry)
         IN  IF Len(lo) = h + 1
             THEN SubSeq(lo, 1, h) \o MulAdd(SubSeq(bytes, h + 1, Len(bytes)), lo[h + 1])
             ELSE <<>>

\* Drop the zero top byte the carry leaves when it is 0
Normalize(bytes) ==
    IF Len(bytes) > 0 /\ bytes[Len(bytes)] = 0
    THEN SubSeq(bytes, 1, Len(bytes) - 1)
    ELSE bytes

\* The digit loop of base-x decoding over s[lo..hi], starting from acc; the
\* left half is evaluated before the right half continues from it.
RECURSIVE DecodeDigits(_, _, _, _)
DecodeDigits(s, lo, hi, acc) ==
    IF lo > hi THEN acc
    ELSE IF lo = hi
    THEN Normalize(MulAdd(acc, IndexOf(Base58Alphabet, s[lo]) - 1))
    ELSE LET mid == (lo + hi) \div 2
             left == DecodeDigits(s, lo, mid, acc)
         IN  IF Len(left) >= 0 THEN DecodeDigits(s, mid + 1, hi, left) ELSE <<>>

RECURSIVE LeadingOnes(_, _)
LeadingOnes(s, i) ==
    IF i <= Len(s) /\ s[i] = "1" THEN 1 + LeadingOnes(s, i + 1) ELSE 0

Reverse(seq) == [i \in 1..Len(seq) |-> seq[Len(seq) + 1 - i]]

\* bs58.decode: throws on a character outside the alphabet; otherwise one
\* zero byte per leading "1" followed by the big-endian bytes of the number.
bs58decode(s) ==
    IF \E i \in 1..Len(s) : s[i] \notin Range(Base58Alphabet)
    THEN [threw |-> TRUE, bytes |-> <<>>]
    ELSE LET zeroes == LeadingOnes(s, 1)
         IN  [threw |-> FALSE,
              bytes |-> Rep(0, zeroes) \o Reverse(DecodeDigits(s, zeroes + 1, Len(s), <<>>))]

\* validateSvmPrivateKey without its try / catch
validateSvmPrivateKey_NoCatch(privateKey) ==
    LET decoded == bs58decode(privateKey)
    IN  IF decoded.threw THEN Throw(Err("Non-base58 character"))
        ELSE Return(Bool(Len(decoded.bytes) = SvmKeyBytes))

validateSvmPrivateKey(privateKey) ==
    LET decoded == bs58decode(privateKey)
    IN  IF decoded.threw THEN Return(Bool(FALSE))
        ELSE Return(Bool(Len(decoded.bytes) = SvmKeyBytes))

IsHexDigit(c) ==
    c \in Range(Digits) \cup {"a","b","c","d","e","f","A","B","C","D","E","F"}

\* The key pattern without its end anchor: /^0x[0-9a-fA-F]{64}/
validateEvmPrivateKey_NoAnchor(privateKey) ==
    /\ Len(privateKey) >= 2 + EvmHexDigits
    /\ privateKey[1] = "0"
    /\ privateKey[2] = "x"
    /\ \A i \in 3..(2 + EvmHexDigits) : IsHexDigit(privateKey[i])

\* /^0x[0-9a-fA-F]{64}$/.test(privateKey)
validateEvmPrivateKey(privateKey) ==
    /\ Len(privateKey) = 2 + EvmHexDigits
    /\ privateKey[1] = "0"
    /\ privateKey[2] = "x"
    /\ \A i \in 3..Len(privateKey) : IsHexDigit(privateKey[i])

\* walletType is a JS value; privateKey a string
validateWalletConfig(walletType, privateKey) ==
    IF walletType = Str(svm) THEN validateSvmPrivateKey(privateKey)
    ELSE IF walletType = Str(evm) THEN Return(Bool(validateEvmPrivateKey(privateKey)))
    ELSE Return(Bool(FALSE))

(***************************************************************************)
(* utils/signer.ts: chain identifiers and signer construction              *)
(***************************************************************************)
UnknownWalletType(walletType) ==
    [message |-> "Unknown wallet type: ${walletType}",
     walletType |-> walletType, expectedFormat |-> ""]

\* getChainIdForWallet matching the chain string as written (no toLowerCase)
getChainIdForWallet_CaseSensitive(walletType, chainIdString) ==
    IF walletType = Str(svm)
    THEN IF includes(chainIdString, devnet)
         THEN Return(Str(SOLANA_DEVNET_CHAIN_ID))
         ELSE Return(Str(SOLANA_MAINNET_CHAIN_ID))
    ELSE IF walletType = Str(evm)
    THEN IF includes(chainIdString, sepolia) \/ chainIdString = s11155111
         THEN Return(Str(SEPOLIA_CHAIN_ID))
         ELSE Return(Str(EVM_MAINNET_CHAIN_ID))
    ELSE Throw(UnknownWalletType(walletType))

\* getChainIdForWallet taking every wallet type other than svm for evm
getChainIdForWallet_EvmByDefault(walletType, chainIdString) ==
    LET lowerChain == toLowerCase(chainIdString)
    IN  IF walletType = Str(svm)
        THEN IF includes(lowerChain, devnet)
             THEN Return(Str(SOLANA_DEVNET_CHAIN_ID))
             ELSE Return(Str(SOLANA_MAINNET_CHAIN_ID))
        ELSE IF includes(lowerChain, sepolia) \/ chainIdString = s11155111
             THEN Return(Str(SEPOLIA_CHAIN_ID))
             ELSE Return(Str(EVM_MAINNET_CHAIN_ID))

\* walletType is a JS value; chainIdString a string
getChainIdForWallet(walletType, chainIdString) ==
    LET lowerChain == toLowerCase(chainIdString)
    IN  IF walletType = Str(svm)
        THEN IF includes(lowerChain, devnet)
             THEN Return(Str(SOLANA_DEVNET_CHAIN_ID))
             ELSE Return(Str(SOLANA_MAINNET_CHAIN_ID))
        ELSE IF walletType = Str(evm)
        THEN IF includes(lowerChain, sepolia) \/ chainIdString = s11155111
             THEN Return(Str(SEPOLIA_CHAIN_ID))
             ELSE Return(Str(EVM_MAINNET_CHAIN_ID))
        ELSE Throw(UnknownWalletType(walletType))

\* A constructed signer: its family, key and chain identifier; requested is the
\* chainId argument its constructor was called with (Undefined when omitted).
Signer(family, privateKey, chainId, requested) ==
    [family |-> family, privateKey |-> privateKey, chainId |-> chainId,
     requested |-> requested]

\* chainId is a JS value, Undefined when omitted (the default parameter then
\* applies); accepts: whether createKeyPairSignerFromBytes takes the bytes.
createSvmSigner(privateKey, chainId, accepts) ==
    LET privateKeyBytes == bs58decode(privateKey)
    IN  IF privateKeyBytes.threw THEN Throw(Err("Non-base58 character"))
        ELSE IF ~accepts THEN Throw(Err("createKeyPairSignerFromBytes rejected"))
        ELSE Return(Signer("svm", privateKey,
                           IF chainId = Undefined THEN SOLANA_MAINNET_CHAIN_ID ELSE chainId.s,
                           chainId))

\* accepts: whether privateKeyToAccount takes the key.
createEvmSigner(privateKey, chainId, accepts) ==
    IF ~accepts THEN Throw(Err("privateKeyToAccount threw"))
    ELSE Return(Signer("evm", privateKey,
                       IF chainId = Undefined THEN EVM_MAINNET_CHAIN_ID ELSE chainId.s,
                       chainId))

SignerConfig(walletType, privateKey, chainId) ==
    [walletType |-> walletType, privateKey |-> privateKey, chainId |-> chainId]

ExpectedFormat(walletType) ==
    IF walletType = Str(svm)
    THEN "base58 encoded (64 bytes when decoded)"
    ELSE "hex string starting with 0x (64 hex characters)"

InvalidKeyFormat(walletType) ==
    [message |-> "Invalid private key format for ${config.walletType} wallet. Expected: ${expectedFormat}",
     walletType |-> walletType,
     expectedFormat |-> ExpectedFormat(walletType)]

\* Line 221 resolving the chain identifier whether or not one is configured
ResolveConfigChainId_Unconditional(config) ==
    getChainIdForWallet(config.walletType,
                        IF config.chainId = Undefined THEN <<>> ELSE config.chainId.s)

\* The chain identifier handed to the family constructor (line 221)
ResolveConfigChainId(config) ==
    IF Truthy(config.chainId)
    THEN getChainIdForWallet(config.walletType, config.chainId.s)
    ELSE Return(Undefined)

\* createSignerFromConfig checking the private key before the wallet type
createSignerFromConfig_KeyFirst(config, accepts) ==
    IF ~Truthy(config.privateKey)
    THEN Throw(Err("Private key is required"))
    ELSE IF ~Truthy(config.walletType)
    THEN Throw(Err("Wallet type is required (svm or evm)"))
    ELSE LET valid == validateWalletConfig(config.walletType, config.privateKey.s)
         IN  IF ~Truthy(valid.val) THEN Throw(InvalidKeyFormat(config.walletType))
             ELSE LET chainId == ResolveConfigChainId(config)
                  IN  IF chainId.threw THEN Throw(chainId.err)
                      ELSE IF config.walletType = Str(svm)
                      THEN createSvmSigner(config.privateKey.s, chainId.val, accepts)
                      ELSE createEvmSigner(config.privateKey.s, chainId.val, accepts)

\* createSignerFromConfig without the key format check of lines 212-219
createSignerFromConfig_NoFormatCheck(config, accepts) ==
    IF ~Truthy(config.walletType)
    THEN Throw(Err("Wallet type is required (svm or evm)"))
    ELSE IF ~Truthy(config.privateKey)
    THEN Throw(Err("Private key is required"))
    ELSE LET chainId == ResolveConfigChainId(config)
         IN  IF chainId.threw THEN Throw(chainId.err)
             ELSE IF config.walletType = Str(svm)
             THEN createSvmSigner(config.privateKey.s, chainId.val, accepts)
             ELSE IF config.walletType = Str(evm)
             THEN createEvmSigner(config.privateKey.s, chainId.val, accepts)
             ELSE Throw(UnknownWalletType(config.walletType))

\* config: a SignerConfig whose fields are JS values; accepts: whether the
\* external key library takes the key.  The result is the settled promise.
createSignerFromConfig(config, accepts) ==
    IF ~Truthy(config.walletType)
    THEN Throw(Err("Wallet type is required (svm or evm)"))
    ELSE IF ~Truthy(config.privateKey)
    THEN Throw(Err("Private key is required"))
    ELSE LET valid == validateWalletConfig(config.walletType, config.privateKey.s)
         IN  IF valid.threw THEN Throw(valid.err)
             ELSE IF ~Truthy(valid.val) THEN Throw(InvalidKeyFormat(config.walletType))
             ELSE LET chainId == ResolveConfigChainId(config)
                  IN  IF chainId.threw THEN Throw(chainId.err)
                      ELSE IF config.walletType = Str(svm)
                      THEN createSvmSigner(config.privateKey.s, chainId.val, accepts)
                      ELSE IF config.walletType = Str(evm)
                      THEN createEvmSigner(config.privateKey.s, chainId.val, accepts)
                      ELSE Throw(UnknownWalletType(config.walletType))

(***************************************************************************)
(* utils/config.ts: the configuration resolver                             *)
(***************************************************************************)
Keys == {"AIMO_WALLET_TYPE", "AIMO_PRIVATE_KEY", "AIMO_CHAIN_ID", "AIMO_BASE_URL",
         "AIMO_SMALL_MODEL", "AIMO_LARGE_MODEL", "SMALL_MODEL", "LARGE_MODEL"}

\* getSetting consulting process.env before the runtime store
getSetting_EnvFirst(st, ev, key, defaultValue) ==
    LET value == st[key]
    IN  IF ev[key] # Undefined THEN ev[key]
        ELSE IF value # Undefined /\ value # Null THEN Str(String(value))
        ELSE defaultValue

\* st: the runtime store, ev: process.env
getSetting(st, ev, key, defaultValue) ==
    LET value == st[key]
    IN  IF value # Undefined /\ value # Null
        THEN Str(String(value))
        ELSE Nullish(ev[key], defaultValue)

\* getWalletType accepting the wallet type in any letter case
getWalletType_AnyCase(st, ev) ==
    LET walletType == getSetting(st, ev, "AIMO_WALLET_TYPE", Undefined)
    IN  IF ~Truthy(walletType)
           \/ (toLowerCase(walletType.s) # svm /\ toLowerCase(walletType.s) # evm)
        THEN Undefined
        ELSE Str(toLowerCase(walletType.s))

getWalletType(st, ev) ==
    LET walletType == getSetting(st, ev, "AIMO_WALLET_TYPE", Undefined)
    IN  IF ~Truthy(walletType) \/ (walletType # Str(svm) /\ walletType # Str(evm))
        THEN Undefined
        ELSE walletType

getPrivateKey(st, ev) == getSetting(st, ev, "AIMO_PRIVATE_KEY", Undefined)

getChainId(st, ev) == OrElse(getSetting(st, ev, "AIMO_CHAIN_ID", Undefined), Undefined)

\* What a function returned or threw, with the lines it logged
Logged(outcome, log) == [outcome |-> outcome, log |-> log]
LogLine(level, message) == [level |-> level, message |-> message]

\* validateWalletConfiguration accepting any non-empty key
validateWalletConfiguration_NoFormatCheck(st, ev) ==
    LET walletType == getWalletType(st, ev)
        privateKey == getPrivateKey(st, ev)
    IN  IF ~Truthy(walletType)
        THEN Logged(Return(Bool(FALSE)),
                    <<LogLine("warn", "AIMO_WALLET_TYPE is not set (should be 'svm' or 'evm')")>>)
        ELSE IF ~Truthy(privateKey)
        THEN Logged(Return(Bool(FALSE)), <<LogLine("warn", "AIMO_PRIVATE_KEY is not set")>>)
        ELSE Logged(Return(Bool(TRUE)), <<>>)

\* The startup check: its verdict and the warning it logs
validateWalletConfiguration(st, ev) ==
    LET walletType == getWalletType(st, ev)
        privateKey == getPrivateKey(st, ev)
    IN  IF ~Truthy(walletType)
        THEN Logged(Return(Bool(FALSE)),
                    <<LogLine("warn", "AIMO_WALLET_TYPE is not set (should be 'svm' or 'evm')")>>)
        ELSE IF ~Truthy(privateKey)
        THEN Logged(Return(Bool(FALSE)), <<LogLine("warn", "AIMO_PRIVATE_KEY is not set")>>)
        ELSE LET valid == validateWalletConfig(walletType, privateKey.s)
             IN  IF valid.threw THEN Logged(valid, <<>>)
                 ELSE IF ~Truthy(valid.val)
                 THEN Logged(Return(Bool(FALSE)),
                             <<LogLine("warn", "Invalid AIMO_PRIVATE_KEY format for ${walletType} wallet. Expected: ${expectedFormat}")>>)
                 ELSE Logged(Return(Bool(TRUE)), <<>>)

\* getSignerConfig handing over whatever it resolved
getSignerConfig_Unchecked(st, ev) ==
    SignerConfig(getWalletType(st, ev), getPrivateKey(st, ev), getChainId(st, ev))

\* getSignerConfig checking the key format as well
getSignerConfig_Validating(st, ev) ==
    LET walletType == getWalletType(st, ev)
        privateKey == getPrivateKey(st, ev)
        chainId == getChainId(st, ev)
    IN  IF ~Truthy(walletType) \/ ~Truthy(privateKey)
        THEN Undefined
        ELSE IF ~Truthy(validateWalletConfig(walletType, privateKey.s).val)
        THEN Undefined
        ELSE SignerConfig(walletType, privateKey, chainId)

getSignerConfig(st, ev) ==
    LET walletType == getWalletType(st, ev)
        privateKey == getPrivateKey(st, ev)
        chainId == getChainId(st, ev)
    IN  IF ~Truthy(walletType) \/ ~Truthy(privateKey)
        THEN Undefined
        ELSE SignerConfig(walletType, privateKey, chainId)

DefaultBaseURL == <<"h","t","t","p","s",":","/","/","b","e","t","a",".","a","i","m","o",".","n","e","t","w","o","r","k">>

getBaseURL(st, ev) ==
    OrElse(getSetting(st, ev, "AIMO_BASE_URL", Str(DefaultBaseURL)), Str(DefaultBaseURL))

(***************************************************************************)
(* providers/aimo-router.ts                                                *)
(***************************************************************************)
BrowserNotSupported ==
    Err("AiMo plugin does not support browser execution. Please use Node.js environment.")

IncompleteConfiguration ==
    Err("AiMo wallet configuration is incomplete. Please set AIMO_WALLET_TYPE and AIMO_PRIVATE_KEY environment variables.")

\* aimoNetwork({signer, baseURL})
Provider(signer, baseURL) == [signer |-> signer, baseURL |-> baseURL]

\* createAimoRouterProvider looking at the configuration before the browser
createAimoRouterProvider_ConfigFirst(st, ev, browser, accepts) ==
    LET signerConfig == getSignerConfig(st, ev)
        baseURL == getBaseURL(st, ev)
    IN  IF signerConfig = Undefined THEN Throw(IncompleteConfiguration)
        ELSE IF browser THEN Throw(BrowserNotSupported)
        ELSE LET signer == createSignerFromConfig(signerConfig, accepts)
             IN  IF signer.threw THEN signer
                 ELSE Return(Provider(signer.val, baseURL.s))

\* browser: globalThis.document is present; accepts: whether the external key
\* library takes the key.  The result is the settled promise.
createAimoRouterProvider(st, ev, browser, accepts) ==
    IF browser THEN Throw(BrowserNotSupported)
    ELSE LET signerConfig == getSignerConfig(st, ev)
             baseURL == getBaseURL(st, ev)
         IN  IF signerConfig = Undefined THEN Throw(IncompleteConfiguration)
             ELSE LET signer == createSignerFromConfig(signerConfig, accepts)
                  IN  IF signer.threw THEN signer
                      ELSE Return(Provider(signer.val, baseURL.s))

(***************************************************************************)
(* init.ts and the plugin's init hook                                      *)
(***************************************************************************)
\* initializeAimoRouter letting a configuration error out instead of logging
initializeAimoRouter_Throwing(st, ev) ==
    LET valid == validateWalletConfiguration(st, ev)
        started == <<LogLine("info", "Initializing AiMo Router plugin...")>>
    IN  IF valid.outcome.threw \/ ~Truthy(valid.outcome.val)
        THEN Logged(Throw(IncompleteConfiguration), started \o valid.log)
        ELSE Logged(Return(Undefined),
                    started \o valid.log
                    \o <<LogLine("log", "AiMo Router plugin initialized successfully")>>)

\* The background validation has no await: it runs to its end inside the
\* call.  Whatever the try block throws is logged by the catch.
initializeAimoRouter(st, ev) ==
    LET valid == validateWalletConfiguration(st, ev)
        started == <<LogLine("info", "Initializing AiMo Router plugin...")>>
    IN  IF valid.outcome.threw
        THEN Logged(Return(Undefined),
                    started \o valid.log
                    \o <<LogLine("error", "AiMo plugin configuration error: ${message}.")>>)
        ELSE IF ~Truthy(valid.outcome.val)
        THEN Logged(Return(Undefined),
                    started \o valid.log
                    \o <<LogLine("warn", "AiMo wallet configuration is incomplete or invalid.")>>)
        ELSE Logged(Return(Undefined),
                    started \o valid.log
                    \o <<LogLine("log", "AiMo Router plugin initialized successfully")>>)

\* The plugin before the runtime has called its init hook
PluginLoaded ==
    [pc |-> "loaded", walletType |-> Undefined, privateKey |-> Undefined,
     log |-> <<>>, result |-> Return(Undefined)]

(***************************************************************************)
(* utils/config.ts: model names                                            *)
(***************************************************************************)
Gpt4o == <<"o","p","e","n","a","i","/","g","p","t","-","4","o">>
Gpt4oMini == Gpt4o \o <<"-","m","i","n","i">>

getSmallModel(st, ev) ==
    Nullish(getSetting(st, ev, "AIMO_SMALL_MODEL", Undefined),
            Nullish(getSetting(st, ev, "SMALL_MODEL", Str(Gpt4oMini)), Str(Gpt4oMini)))

getLargeModel(st, ev) ==
    Nullish(getSetting(st, ev, "AIMO_LARGE_MODEL", Undefined),
            Nullish(getSetting(st, ev, "LARGE_MODEL", Str(Gpt4o)), Str(Gpt4o)))

(***************************************************************************)
(* utils/helpers.ts: JSON repair                                           *)
(***************************************************************************)
StartsWith(s, p) == Len(s) >= Len(p) /\ SubSeq(s, 1, Len(p)) = p
Drop(s, n) == SubSeq(s, n + 1, Len(s))

\* The grave accent character, which a TLA+ string cannot hold
GraveAccent == "GRAVE"
Fence == <<GraveAccent, GraveAccent, GraveAccent>>
FenceJson == Fence \o <<"j","s","o","n","\n">>
NewlineFence == <<"\n">> \o Fence

\* text.replace(/FENCEjson\n|\nFENCE|FENCE/g, "") with FENCE for three grave
\* accents: at each position the alternatives are tried in order, a match is
\* removed and the scan goes on after it.
RECURSIVE StripFences(_)
StripFences(text) ==
    IF text = <<>> THEN <<>>
    ELSE IF StartsWith(text, FenceJson) THEN StripFences(Drop(text, Len(FenceJson)))
    ELSE IF StartsWith(text, NewlineFence) THEN StripFences(Drop(text, Len(NewlineFence)))
    ELSE IF StartsWith(text, Fence) THEN StripFences(Drop(text, Len(Fence)))
    ELSE <<Head(text)>> \o StripFences(Tail(text))

JsonWhitespace == {" ", "\n", "\t", "\r"}

RECURSIVE SkipWs(_, _)
SkipWs(s, i) == IF i <= Len(s) /\ s[i] \in JsonWhitespace THEN SkipWs(s, i + 1) ELSE i

RECURSIVE SkipDigits(_, _)
SkipDigits(s, i) == IF i <= Len(s) /\ s[i] \in Range(Digits) THEN SkipDigits(s, i + 1) ELSE i

\* The index after the closing quote of the string whose body starts at i, or
\* 0; a backslash takes the next character with it.
RECURSIVE ParseStringBody(_, _)
ParseStringBody(s, i) ==
    IF i > Len(s) \/ s[i] = "\n" THEN 0
    ELSE IF s[i] = "\"" THEN i + 1
    ELSE IF s[i] = "\\" THEN (IF i + 1 > Len(s) THEN 0 ELSE ParseStringBody(s, i + 2))
    ELSE ParseStringBody(s, i + 1)

\* -? digits (. digits)?
ParseNumber(s, i) ==
    LET start == IF i <= Len(s) /\ s[i] = "-" THEN i + 1 ELSE i
        int == SkipDigits(s, start)
    IN  IF int = start THEN 0
        ELSE IF int - start > 1 /\ s[start] = "0" THEN 0
        ELSE IF int <= Len(s) /\ s[int] = "."
        THEN LET frac == SkipDigits(s, int + 1) IN IF frac = int + 1 THEN 0 ELSE frac
        ELSE int

JsonLiterals == {<<"t","r","u","e">>, <<"f","a","l","s","e">>, <<"n","u","l","l">>}

\* The index after the JSON value that starts at i, or 0 when there is none.
RECURSIVE ParseValue(_, _), ParseMembers(_, _), ParseElements(_, _)
ParseValue(s, i) ==
    IF i > Len(s) THEN 0
    ELSE IF s[i] = "{"
    THEN LET j == SkipWs(s, i + 1)
         IN  IF j <= Len(s) /\ s[j] = "}" THEN j + 1 ELSE ParseMembers(s, j)
    ELSE IF s[i] = "["
    THEN LET j == SkipWs(s, i + 1)
         IN  IF j <= Len(s) /\ s[j] = "]" THEN j + 1 ELSE ParseElements(s, j)
    ELSE IF s[i] = "\"" THEN ParseStringBody(s, i + 1)
    ELSE IF s[i] \in Range(Digits) \cup {"-"} THEN ParseNumber(s, i)
    ELSE IF \E l \in JsonLiterals : StartsWith(Drop(s, i - 1), l)
    THEN i + Len(CHOOSE l \in JsonLiterals : StartsWith(Drop(s, i - 1), l))
    ELSE 0

\* "key" : value ( , members )? }
ParseMembers(s, i) ==
    IF i > Len(s) \/ s[i] # "\"" THEN 0
    ELSE LET k == ParseStringBody(s, i + 1)
             colon == IF k = 0 THEN 0 ELSE SkipWs(s, k)
         IN  IF colon = 0 \/ colon > Len(s) \/ s[colon] # ":" THEN 0
             ELSE LET v == ParseValue(s, SkipWs(s, colon + 1))
                      next == IF v = 0 THEN 0 ELSE SkipWs(s, v)
                  IN  IF next = 0 \/ next > Len(s) THEN 0
                      ELSE IF s[next] = "}" THEN next + 1
                      ELSE IF s[next] = "," THEN ParseMembers(s, SkipWs(s, next + 1))
                      ELSE 0

\* value ( , elements )? ]
ParseElements(s, i) ==
    LET v == ParseValue(s, i)
        next == IF v = 0 THEN 0 ELSE SkipWs(s, v)
    IN  IF next = 0 \/ next > Len(s) THEN 0
        ELSE IF s[next] = "]" THEN next + 1
        ELSE IF s[next] = "," THEN ParseElements(s, SkipWs(s, next + 1))
        ELSE 0

SyntaxError == Err("SyntaxError")

\* The kind of value a JSON text starts with
JsonKind(c) ==
    IF c = "{" THEN "object" ELSE IF c = "[" THEN "array"
    ELSE IF c = "\"" THEN "string" ELSE IF c = "t" \/ c = "f" THEN "boolean"
    ELSE IF c = "n" THEN "null" ELSE "number"

\* JSON.parse(text): the parsed value, kept as its kind and its text, or a
\* SyntaxError.
JSONparse(text) ==
    LET start == SkipWs(text, 1)
        end == ParseValue(text, start)
    IN  IF end # 0 /\ SkipWs(text, end) = Len(text) + 1
        THEN Return([t |-> JsonKind(text[start]), s |-> text, n |-> 0])
        ELSE Throw(SyntaxError)

\* An error generateObject rejects with: class is JSONParseError, Error, or
\* value for a thrown value that is not an Error; text is JSONParseError.text.
SdkError(class, message, text) == [class |-> class, message |-> message, text |-> text]

\* The repair function applied to {text, error}: the cleaned string or null
getJsonRepairFunction(text, error) ==
    IF error.class = "JSONParseError"
    THEN LET cleanedText == StripFences(text)
         IN  IF JSONparse(cleanedText).threw THEN Null ELSE Str(cleanedText)
    ELSE Null

\* Object.assign(new Error(message), { cause: error })
WrappedError(error) ==
    [class |-> "Error", message |-> error.message, text |-> <<>>, cause |-> error]

\* handleObjectGenerationError giving up on every error without a repair
handleObjectGenerationError_NoRepair(error) ==
    IF error.class = "value" THEN Throw(WrappedError(error)) ELSE Throw(error)

handleObjectGenerationError(error) ==
    IF error.class = "JSONParseError"
    THEN LET repairedJsonString == getJsonRepairFunction(error.text, error)
         IN  IF Truthy(repairedJsonString)
             THEN LET repairedObject == JSONparse(repairedJsonString.s)
                  IN  IF repairedObject.threw THEN Throw(repairedObject.err)
                      ELSE repairedObject
             ELSE Throw(error)
    ELSE IF error.class = "Error" THEN Throw(error)
    ELSE Throw(WrappedError(error))

FailedToRepair == LogLine("warn", "Failed to repair JSON text: ${message}")
FailedToParse == LogLine("error", "[generateObject] Failed to parse JSON: ${error.message}")
SuccessfullyRepaired == LogLine("log", "[generateObject] Successfully repaired JSON.")
RepairFailed == LogLine("error", "[generateObject] JSON repair failed.")
UnknownError == LogLine("error", "[generateObject] Unknown error: ${message}")

\* The lines handleObjectGenerationError and the repair function log on the
\* way to the outcome above
handleObjectGenerationErrorLog(error) ==
    IF error.class = "JSONParseError"
    THEN IF Truthy(getJsonRepairFunction(error.text, error))
         THEN <<FailedToParse, SuccessfullyRepaired>>
         ELSE <<FailedToParse, FailedToRepair, RepairFailed>>
    ELSE <<UnknownError>>

(***************************************************************************)
(* models/object.ts: the object handlers                                   *)
(***************************************************************************)
\* What generateObject settles with, and whether emitModelUsageEvent then
\* returns: [outcome, usage, emit] with emit one of returns, throws
SdkSettled(outcome, usage, emit) == [outcome |-> outcome, usage |-> usage, emit |-> emit]

\* What emitModelUsageEvent throws when the runtime's emitEvent throws
EmitError == SdkError("Error", "emitEvent failed", <<>>)

UsingModel(modelType) ==
    LogLine("log", IF modelType = "OBJECT_SMALL"
                   THEN "[AiMo] Using OBJECT_SMALL model: ${modelName}"
                   ELSE "[AiMo] Using OBJECT_LARGE model: ${modelName}")

\* What the try block ends with: the object, or what the catch clause gets
TryGenerateObject(sdk) ==
    IF sdk.outcome.threw THEN sdk.outcome
    ELSE IF sdk.usage /\ sdk.emit = "throws" THEN Throw(EmitError)
    ELSE sdk.outcome

generateObjectWithModel(st, ev, browser, accepts, modelType, sdk) ==
    LET aimoProvider == createAimoRouterProvider(st, ev, browser, accepts)
        tried == TryGenerateObject(sdk)
    IN  IF aimoProvider.threw THEN Logged(Throw(aimoProvider.err), <<>>)
        ELSE IF tried.threw
        THEN Logged(handleObjectGenerationError(tried.err),
                    <<UsingModel(modelType)>> \o handleObjectGenerationErrorLog(tried.err))
        ELSE Logged(tried, <<UsingModel(modelType)>>)

handleObjectSmall(st, ev, browser, accepts, sdk) ==
    generateObjectWithModel(st, ev, browser, accepts, "OBJECT_SMALL", sdk)

handleObjectLarge(st, ev, browser, accepts, sdk) ==
    generateObjectWithModel(st, ev, browser, accepts, "OBJECT_LARGE", sdk)

(***************************************************************************)
(* models/embedding.ts and models/image.ts: the handlers without a backend *)
(***************************************************************************)
\* What a handler did: what it returned or threw, the lines it logged and the
\* settings it asked for
Handled(outcome, log, settingsRead) ==
    [outcome |-> outcome, log |-> log, settingsRead |-> settingsRead]

\* Object.values(VECTOR_DIMS) of @elizaos/core
VECTOR_DIMS == {384, 512, 768, 1024, 1536, 3072}

NaN == [t |-> "NaN", s |-> <<>>, n |-> 0]

\* The number written by the digits s[from..to]
RECURSIVE DigitsValue(_, _, _)
DigitsValue(s, from, to) ==
    IF to < from THEN 0
    ELSE 10 * DigitsValue(s, from, to - 1) + (IndexOf(Digits, s[to]) - 1)

\* Number.parseInt(s, 10): leading whitespace, a sign, then the longest run of
\* digits; NaN when there is no digit
parseInt(s) ==
    LET i == SkipWs(s, 1)
        signed == i <= Len(s) /\ s[i] \in {"-", "+"}
        start == IF signed THEN i + 1 ELSE i
        end == SkipDigits(s, start)
    IN  IF end = start THEN NaN
        ELSE IF signed /\ s[i] = "-" THEN Num(0 - DigitsValue(s, start, end - 1))
        ELSE Num(DigitsValue(s, start, end - 1))

\* String.prototype.trim leaves nothing
TrimsToEmpty(s) == \A i \in 1..Len(s) : s[i] \in JsonWhitespace

\* Array(length).fill(0) with element 0 set to first
Vector(length, first) == [t |-> "vector", length |-> length, first |-> first]

\* params of a handler: a JS value, or an object with the fields given
ObjectParams(fields) == [t |-> "object", s |-> <<>>, n |-> 0, fields |-> fields]

DefaultDimension == <<"1","5","3","6">>

handleTextEmbedding(st, ev, params) ==
    LET specific == getSetting(st, ev, "AIMO_EMBEDDING_DIMENSIONS", Undefined)
        generic == getSetting(st, ev, "EMBEDDING_DIMENSIONS", Undefined)
        settingsRead == IF specific = Undefined
                        THEN {"AIMO_EMBEDDING_DIMENSIONS", "EMBEDDING_DIMENSIONS"}
                        ELSE {"AIMO_EMBEDDING_DIMENSIONS"}
        embeddingDimension ==
            parseInt(Nullish(specific, Nullish(generic, Str(DefaultDimension))).s)
        unsupported ==
            LogLine("warn", "TEXT_EMBEDDING is not yet supported by AiMo Network. Returning placeholder embedding.")
    IN  IF embeddingDimension = NaN \/ embeddingDimension.n \notin VECTOR_DIMS
        THEN Handled(Throw(Err("Invalid embedding dimension: ${embeddingDimension}")),
                     <<LogLine("error", "Invalid embedding dimension: ${embeddingDimension}")>>,
                     settingsRead)
        ELSE IF params = Null
        THEN Handled(Return(Vector(embeddingDimension.n, "0.1")),
                     <<LogLine("debug", "Creating test embedding for initialization")>>,
                     settingsRead)
        ELSE IF params.t # "string"
                /\ ~(params.t = "object" /\ "text" \in DOMAIN params.fields
                     /\ Truthy(params.fields.text))
        THEN Handled(Return(Vector(embeddingDimension.n, "0.2")),
                     <<unsupported, LogLine("warn", "Invalid input format for embedding")>>,
                     settingsRead)
        ELSE LET text == IF params.t = "string" THEN params.s ELSE params.fields.text.s
             IN  IF TrimsToEmpty(text)
                 THEN Handled(Return(Vector(embeddingDimension.n, "0.3")),
                              <<unsupported, LogLine("warn", "Empty text for embedding")>>,
                              settingsRead)
                 ELSE Handled(Return(Vector(embeddingDimension.n, "0.4")),
                              <<unsupported,
                                LogLine("log", "Generated placeholder embedding for text")>>,
                              settingsRead)

\* The description carries the image URL, undefined when the object has none
handleImageDescription(params) ==
    LET imageUrl == IF params.t = "string" THEN params
                    ELSE IF "imageUrl" \in DOMAIN params.fields THEN params.fields.imageUrl
                    ELSE Undefined
    IN  Handled(Return([t |-> "description",
                        title |-> "Image Analysis Not Supported",
                        imageUrl |-> String(imageUrl)]),
                <<LogLine("warn", "IMAGE_DESCRIPTION is not yet supported by AiMo Network. Returning placeholder response.")>>,
                {})

handleImageGeneration(params) ==
    Handled(Return([t |-> "array", length |-> 0]),
            <<LogLine("warn", "IMAGE_GENERATION is not yet supported by AiMo Network. Returning empty result.")>>,
            {})

(***************************************************************************)
(* Function application: the key validators                                *)
(***************************************************************************)
NoSettings == [k \in Keys |-> Undefined]

\* The handler machine at rest, for the specifications that apply one function
MachineAtRest ==
    /\ store = NoSettings
    /\ env = NoSettings
    /\ isBrowser = FALSE
    /\ calls = <<>>
    /\ changes = 0
    /\ plugin = PluginLoaded

machineVars == <<store, env, isBrowser, calls, changes, plugin>>

ReplaceAt(s, pos, c) == [i \in 1..Len(s) |-> IF i = pos THEN c ELSE s[i]]

\* EVM keys by shape: a prefix, n copies of a hex digit, and optionally one
\* character replaced (repl = "" leaves the body alone).
EvmPrefixes == {<<"0","x">>, <<"0","X">>, <<>>, <<"x">>, <<"0">>}
EvmFills == {"a", "F", "0", "9"}
EvmLengths == {0, 8, EvmHexDigits - 1, EvmHexDigits, EvmHexDigits + 1}
HexRepl == {"A", "f", "7"}
NonHexRepl == {"g", "G", " ", "\n"}

EvmKeyOf(shape) ==
    LET body == Rep(shape.fill, shape.n)
    IN  shape.prefix \o
        (IF shape.repl = "" THEN body
         ELSE ReplaceAt(body, IF shape.atEnd THEN shape.n ELSE 1, shape.repl))

EvmShapes ==
    {[prefix |-> p, fill |-> f, n |-> n, repl |-> r, atEnd |-> e] :
        p \in EvmPrefixes, f \in EvmFills, n \in EvmLengths,
        r \in {""} \cup HexRepl \cup NonHexRepl, e \in BOOLEAN}

\* SVM keys by shape: lead copies of "1", count copies of a base58 digit, and
\* optionally one character replaced.
SvmLeads == {0, 1, 20, 32, SvmKeyBytes}
SvmDigits == {"2", "z"}
SvmCounts == {0, 2, 44, 60, 86, 87, 88}
NonBase58Repl == {"0", "O", "I", "l", "+"}

SvmKeyOf(shape) ==
    LET body == Rep("1", shape.lead) \o Rep(shape.digit, shape.count)
    IN  IF shape.repl = "" THEN body
        ELSE ReplaceAt(body, IF shape.atEnd THEN Len(body) ELSE 1, shape.repl)

SvmShapes ==
    {[lead |-> l, digit |-> d, count |-> c, repl |-> r, atEnd |-> e] :
        l \in SvmLeads, d \in SvmDigits, c \in SvmCounts,
        r \in {""} \cup NonBase58Repl, e \in BOOLEAN}

KeyInputs ==
    {[walletType |-> Str(evm), privateKey |-> EvmKeyOf(sh), shape |-> sh] : sh \in EvmShapes}
    \cup
    {[walletType |-> Str(svm), privateKey |-> SvmKeyOf(sh), shape |-> sh] : sh \in SvmShapes}
    \cup
    {[walletType |-> w, privateKey |-> EvmKeyOf(sh), shape |-> sh] :
        w \in {Str(<<"b","t","c">>), Str(<<"E","V","M">>), Undefined},
        sh \in {s \in EvmShapes : s.n = EvmHexDigits /\ s.repl = "" /\ s.fill = "a" /\ s.atEnd}}

InitKey ==
    /\ MachineAtRest
    /\ pc = "ready"
    /\ input \in KeyInputs
    /\ output = Return(Undefined)

ApplyValidateWalletConfig ==
    /\ pc = "ready"
    /\ output' = validateWalletConfig(input.walletType, input.privateKey)
    /\ pc' = "done"
    /\ UNCHANGED <<machineVars, input>>

NextKey == ApplyValidateWalletConfig

SpecKey == InitKey /\ [][NextKey]_vars

\* C7: validateKeyFormat("evm", s) is true exactly for the keys shaped "0x" +
\* 64 hexadecimal characters of either case; a missing or different prefix,
\* another length or a non-hex character gives false.
EvmShapeValid(shape) ==
    /\ shape.prefix = <<"0","x">>
    /\ shape.n = EvmHexDigits
    /\ shape.repl \notin NonHexRepl

C7_EvmKeyFormat ==
    (pc = "done" /\ input.walletType = Str(evm))
        => output = Return(Bool(EvmShapeValid(input.shape)))

C7_Witness ==
    /\ pc = "done"
    /\ input.walletType = Str(evm)
    /\ input.shape.prefix = <<"0","x">>
    /\ input.shape.n = EvmHexDigits
    /\ input.shape.fill = "a"
    /\ input.shape.repl = "A"
    /\ output = Return(Bool(TRUE))

\* The number of bytes of the base58 number written as count copies of digit
\* ("2" is the digit 1, "z" the digit 57), computed outside the model.
Base58ByteLength(digit, count) ==
    CASE count = 0 -> 0
      [] count = 2 -> IF digit = "2" THEN 1 ELSE 2
      [] count = 44 -> IF digit = "2" THEN 32 ELSE 33
      [] count = 60 -> 44
      [] count = 86 -> 63
      [] count = 87 -> IF digit = "2" THEN 63 ELSE 64
      [] count = 88 -> IF digit = "2" THEN 64 ELSE 65
      [] count = 89 -> IF digit = "2" THEN 65 ELSE 66

SvmShapeDecodes(shape) == shape.repl = "" \/ shape.lead + shape.count = 0

SvmShapeValid(shape) ==
    /\ SvmShapeDecodes(shape)
    /\ shape.lead + Base58ByteLength(shape.digit, shape.count) = SvmKeyBytes

C8_WitnessDecodeFailure ==
    /\ pc = "done"
    /\ input.walletType = Str(svm)
    /\ input.shape.repl = "0"
    /\ input.shape.count = 87
    /\ output = Return(Bool(FALSE))

(***************************************************************************)
(* Function application: getChainIdForWallet                               *)
(***************************************************************************)
\* Chain strings by shape: a word with a prefix and a suffix around it.  Each
\* word is listed with whether, read case-insensitively, it contains "devnet"
\* and "sepolia"; the prefixes and suffixes add neither.
ChainWords ==
    {[w |-> <<>>, devnet |-> FALSE, sepolia |-> FALSE],
     [w |-> <<"m","a","i","n","n","e","t">>, devnet |-> FALSE, sepolia |-> FALSE],
     [w |-> <<"t","e","s","t","n","e","t">>, devnet |-> FALSE, sepolia |-> FALSE],
     [w |-> <<"d","e","v","n","e","t">>, devnet |-> TRUE, sepolia |-> FALSE],
     [w |-> <<"D","E","V","N","E","T">>, devnet |-> TRUE, sepolia |-> FALSE],
     [w |-> <<"D","e","v","N","e","t">>, devnet |-> TRUE, sepolia |-> FALSE],
     [w |-> <<"d","e","v","n","e">>, devnet |-> FALSE, sepolia |-> FALSE],
     [w |-> <<"d","e","v","-","n","e","t">>, devnet |-> FALSE, sepolia |-> FALSE],
     [w |-> <<"t","e","n","v","e","d">>, devnet |-> FALSE, sepolia |-> FALSE],
     [w |-> <<"s","e","p","o","l","i","a">>, devnet |-> FALSE, sepolia |-> TRUE],
     [w |-> <<"S","E","P","O","L","I","A">>, devnet |-> FALSE, sepolia |-> TRUE],
     [w |-> <<"S","e","p","o","l","i","a","-","t","e","s","t">>, devnet |-> FALSE, sepolia |-> TRUE],
     [w |-> <<"s","e","p","o","l","i">>, devnet |-> FALSE, sepolia |-> FALSE],
     [w |-> <<"s","e","p","o","l","i","a","-","d","e","v","n","e","t">>, devnet |-> TRUE, sepolia |-> TRUE],
     [w |-> <<"1","1","1","5","5","1","1","1">>, devnet |-> FALSE, sepolia |-> FALSE],
     [w |-> <<"1","1","1","5","5","1","1","1","0">>, devnet |-> FALSE, sepolia |-> FALSE],
     [w |-> <<"1">>, devnet |-> FALSE, sepolia |-> FALSE],
     [w |-> EVM_MAINNET_CHAIN_ID, devnet |-> FALSE, sepolia |-> FALSE],
     [w |-> SEPOLIA_CHAIN_ID, devnet |-> FALSE, sepolia |-> FALSE],
     [w |-> SOLANA_MAINNET_CHAIN_ID, devnet |-> FALSE, sepolia |-> FALSE],
     [w |-> SOLANA_DEVNET_CHAIN_ID, devnet |-> FALSE, sepolia |-> FALSE],
     [w |-> SOLANA_TESTNET_CHAIN_ID, devnet |-> FALSE, sepolia |-> FALSE]}
ChainPrefixes == {<<>>, <<"x","-">>}
ChainSuffixes == {<<>>, <<"-","y">>}

ChainStringOf(shape) == shape.prefix \o shape.word.w \o shape.suffix

ChainShapes ==
    {[prefix |-> p, word |-> w, suffix |-> s] :
        p \in ChainPrefixes, w \in ChainWords, s \in ChainSuffixes}

ChainWalletTypes ==
    {Str(svm), Str(evm), Str(<<"b","t","c">>), Str(<<"S","V","M">>), Str(<<>>), Undefined}

ChainInputs ==
    {[walletType |-> wt, chainIdString |-> ChainStringOf(sh), shape |-> sh] :
        wt \in ChainWalletTypes, sh \in ChainShapes}

InitChain ==
    /\ MachineAtRest
    /\ pc = "ready"
    /\ input \in ChainInputs
    /\ output = Return(Undefined)

ApplyGetChainIdForWallet ==
    /\ pc = "ready"
    /\ output' = getChainIdForWallet(input.walletType, input.chainIdString)
    /\ pc' = "done"
    /\ UNCHANGED <<machineVars, input>>

NextChain == ApplyGetChainIdForWallet

SpecChain == InitChain /\ [][NextChain]_vars

\* C3: resolveChainId("evm", s) is the Sepolia identifier for the inputs
\* "eip155:11155111", "11155111" and "Sepolia-test", and the EVM mainnet
\* identifier for "mainnet" and "".
C3_EvmChainExamples ==
    (pc = "done" /\ input.walletType = Str(evm))
        => /\ input.chainIdString \in
                {SEPOLIA_CHAIN_ID, s11155111, <<"S","e","p","o","l","i","a","-","t","e","s","t">>}
                => output = Return(Str(SEPOLIA_CHAIN_ID))
           /\ input.chainIdString \in {<<"m","a","i","n","n","e","t">>, <<>>}
                => output = Return(Str(EVM_MAINNET_CHAIN_ID))

C15_UnknownWalletTypeFails ==
    (pc = "done" /\ input.walletType \notin {Str(svm), Str(evm)}) =>
        /\ output.threw
        /\ output.err = UnknownWalletType(input.walletType)
        /\ output.val = Undefined

\* An upper-case SVM with a devnet chain string has been refused
C15_Witness ==
    /\ pc = "done"
    /\ input.walletType = Str(<<"S","V","M">>)
    /\ input.chainIdString = devnet
    /\ output = Throw(UnknownWalletType(Str(<<"S","V","M">>)))

(***************************************************************************)
(* Function application: getSetting and getWalletType                      *)
(***************************************************************************)
\* What the runtime store may hold under a key: the value, whether it counts
\* as held (neither undefined nor null), and its JavaScript string form.
StoreChoices ==
    {[v |-> Undefined, held |-> FALSE, str |-> <<>>],
     [v |-> Null, held |-> FALSE, str |-> <<>>],
     [v |-> Str(<<>>), held |-> TRUE, str |-> <<>>],
     [v |-> Str(svm), held |-> TRUE, str |-> svm],
     [v |-> Str(evm), held |-> TRUE, str |-> evm],
     [v |-> Str(<<"S","V","M">>), held |-> TRUE, str |-> <<"S","V","M">>],
     [v |-> Str(<<"s","v","m"," ">>), held |-> TRUE, str |-> <<"s","v","m"," ">>],
     [v |-> Str(<<"e","v">>), held |-> TRUE, str |-> <<"e","v">>],
     [v |-> Num(0), held |-> TRUE, str |-> <<"0">>],
     [v |-> Num(11155111), held |-> TRUE, str |-> s11155111],
     [v |-> Num(-42), held |-> TRUE, str |-> <<"-","4","2">>],
     [v |-> Bool(TRUE), held |-> TRUE, str |-> <<"t","r","u","e">>],
     [v |-> Bool(FALSE), held |-> TRUE, str |-> <<"f","a","l","s","e">>]}

EnvChoices ==
    {Undefined, Str(<<>>), Str(svm), Str(evm), Str(<<"E","v","m">>), Str(<<"s","o","l">>)}

SettingKeys == {"AIMO_WALLET_TYPE", "AIMO_CHAIN_ID"}

DefaultChoices == {Undefined, Str(<<"d","e","f","a","u","l","t">>)}

InitSetting ==
    /\ \E k1 \in SettingKeys, c \in StoreChoices, k2 \in SettingKeys, e \in EnvChoices,
          k \in SettingKeys, d \in DefaultChoices :
            /\ store = [NoSettings EXCEPT ![k1] = c.v]
            /\ env = [NoSettings EXCEPT ![k2] = e]
            /\ input = [key |-> k, defaultValue |-> d,
                        held |-> (c.held /\ k1 = k), str |-> c.str]
    /\ isBrowser = FALSE
    /\ calls = <<>>
    /\ changes = 0
    /\ plugin = PluginLoaded
    /\ pc = "ready"
    /\ output = Return(Undefined)

ApplyGetSetting ==
    /\ pc = "ready"
    /\ output' = Return(getSetting(store, env, input.key, input.defaultValue))
    /\ pc' = "getSetting"
    /\ UNCHANGED <<machineVars, input>>

ApplyGetWalletType ==
    /\ pc = "ready"
    /\ output' = Return(getWalletType(store, env))
    /\ pc' = "getWalletType"
    /\ UNCHANGED <<machineVars, input>>

NextSetting == ApplyGetSetting \/ ApplyGetWalletType

SpecSetting == InitSetting /\ [][NextSetting]_vars

\* C9: resolveSetting returns the store's value as a string whenever the store
\* holds a value that is neither undefined nor null, whatever the environment
\* variable of that name holds; otherwise the environment variable if set;
\* otherwise the supplied default unchanged (undefined when none is given).
C9_SettingPrecedence ==
    pc = "getSetting"
        => output = Return(IF input.held THEN Str(input.str)
                           ELSE IF env[input.key] # Undefined THEN env[input.key]
                           ELSE input.defaultValue)

C9_Witness ==
    /\ pc = "getSetting"
    /\ input.key = "AIMO_CHAIN_ID"
    /\ store["AIMO_CHAIN_ID"] = Num(11155111)
    /\ env["AIMO_CHAIN_ID"] = Str(svm)
    /\ output = Return(Str(s11155111))

\* C10: resolveWalletType returns svm or evm only when the resolved
\* AIMO_WALLET_TYPE setting is exactly one of those two strings; for any other
\* value (absent, empty, another case, misspelled) it returns undefined, and it
\* never throws.
C10_WalletTypeExact ==
    pc = "getWalletType"
        => LET resolved == getSetting(store, env, "AIMO_WALLET_TYPE", Undefined)
           IN  /\ ~output.threw
               /\ output.val = IF resolved \in {Str(svm), Str(evm)} THEN resolved ELSE Undefined

C10_Witness ==
    /\ pc = "getWalletType"
    /\ store["AIMO_WALLET_TYPE"] = Str(<<"S","V","M">>)
    /\ env["AIMO_WALLET_TYPE"] = Str(svm)
    /\ output = Return(Undefined)

(***************************************************************************)
(* Function application: createSignerFromConfig                            *)
(***************************************************************************)
ValidEvmKey == <<"0","x">> \o Rep("a", EvmHexDigits - 1) \o <<"F">>
ValidSvmKey == Rep("z", 87)
ShortEvmKey == <<"0","x","d","e","a","d","b","e","e","f">>
\* 60 zero bytes and the four bytes of zzzzz
LeadingZeroSvmKey == Rep("1", 60) \o Rep("z", 5)

\* Private keys a config may carry, each with the wallet families whose format
\* it has.
KeyChoices ==
    {[k |-> Undefined, validFor |-> {}],
     [k |-> Str(<<>>), validFor |-> {}],
     [k |-> Str(<<"x">>), validFor |-> {}],
     [k |-> Str(ShortEvmKey), validFor |-> {}],
     [k |-> Str(ValidEvmKey \o <<"0">>), validFor |-> {}],
     [k |-> Str(ValidEvmKey), validFor |-> {Str(evm)}],
     [k |-> Str(ValidSvmKey), validFor |-> {Str(svm)}],
     [k |-> Str(Rep("1", SvmKeyBytes)), validFor |-> {Str(svm)}],
     [k |-> Str(LeadingZeroSvmKey), validFor |-> {Str(svm)}],
     [k |-> Str(Rep("z", 88)), validFor |-> {}]}

WalletTypeChoices ==
    {Undefined, Str(<<>>), Str(svm), Str(evm), Str(<<"b","t","c">>), Str(<<"S","V","M">>)}

ChainIdChoices ==
    {Undefined, Str(<<>>), Str(devnet), Str(<<"S","e","p","o","l","i","a">>),
     Str(SOLANA_TESTNET_CHAIN_ID), Str(s11155111)}

SignerInputs ==
    {[config |-> SignerConfig(wt, kc.k, ch), accepts |-> a, validFor |-> kc.validFor] :
        wt \in WalletTypeChoices, kc \in KeyChoices, ch \in ChainIdChoices, a \in BOOLEAN}

InitSigner ==
    /\ MachineAtRest
    /\ pc = "ready"
    /\ input \in SignerInputs
    /\ output = Return(Undefined)

ApplyCreateSignerFromConfig ==
    /\ pc = "ready"
    /\ output' = createSignerFromConfig(input.config, input.accepts)
    /\ pc' = "done"
    /\ UNCHANGED <<machineVars, input>>

NextSigner == ApplyCreateSignerFromConfig

SpecSigner == InitSigner /\ [][NextSigner]_vars

Absent(value) == value = Undefined \/ value = Str(<<>>)

\* C2: buildSigner checks in a fixed order: an absent wallet type fails with
\* MissingWalletType whatever the private key is; otherwise an absent private
\* key fails with MissingPrivateKey; otherwise a key without the format of the
\* wallet type fails with InvalidKeyFormat, whose message names the wallet type
\* and the expected format.  An invalid config raises exactly that one error.
C2_ValidationOrder ==
    pc = "done" =>
        LET config == input.config
        IN  IF Absent(config.walletType)
            THEN output = Throw(Err("Wallet type is required (svm or evm)"))
            ELSE IF Absent(config.privateKey)
            THEN output = Throw(Err("Private key is required"))
            ELSE IF config.walletType \notin input.validFor
            THEN /\ output.threw
                 /\ output.err.message =
                        "Invalid private key format for ${config.walletType} wallet. Expected: ${expectedFormat}"
                 /\ output.err.walletType = config.walletType
                 /\ config.walletType = Str(svm)
                        => output.err.expectedFormat = "base58 encoded (64 bytes when decoded)"
                 /\ config.walletType = Str(evm)
                        => output.err.expectedFormat = "hex string starting with 0x (64 hex characters)"
            ELSE output.err.message \notin
                    {"Wallet type is required (svm or evm)", "Private key is required",
                     "Invalid private key format for ${config.walletType} wallet. Expected: ${expectedFormat}"}

C2_Witness ==
    /\ pc = "done"
    /\ input.config.walletType = Undefined
    /\ input.config.privateKey = Undefined
    /\ output = Throw(Err("Wallet type is required (svm or evm)"))

C2_WitnessInvalidKey ==
    /\ pc = "done"
    /\ input.config.walletType = Str(evm)
    /\ input.config.privateKey = Str(ShortEvmKey)
    /\ output = Throw(InvalidKeyFormat(Str(evm)))

(***************************************************************************)
(* Function application: createAimoRouterProvider over the settings        *)
(***************************************************************************)
ProviderStoreWalletTypes == {Undefined, Str(svm), Str(evm)}
ProviderEnvWalletTypes == {Undefined, Str(<<>>), Str(svm), Str(evm), Str(<<"S","V","M">>)}
ProviderStoreKeys == {Undefined, Str(ValidEvmKey)}
ProviderEnvKeys == {Undefined, Str(<<>>), Str(ShortEvmKey), Str(ValidEvmKey), Str(ValidSvmKey)}
ProviderStoreChainIds == {Undefined, Str(<<>>), Num(11155111)}
ProviderEnvChainIds ==
    {Undefined, Str(SOLANA_MAINNET_CHAIN_ID), Str(SOLANA_DEVNET_CHAIN_ID),
     Str(SOLANA_TESTNET_CHAIN_ID), Str(EVM_MAINNET_CHAIN_ID), Str(SEPOLIA_CHAIN_ID),
     Str(devnet), Str(<<"S","e","p","o","l","i","a","-","t","e","s","t">>)}

\* The wallet settings of the runtime store and of process.env
ProviderSettings ==
    /\ \E sw \in ProviderStoreWalletTypes, sk \in ProviderStoreKeys,
          sc \in ProviderStoreChainIds :
            store = [NoSettings EXCEPT !["AIMO_WALLET_TYPE"] = sw,
                                       !["AIMO_PRIVATE_KEY"] = sk,
                                       !["AIMO_CHAIN_ID"] = sc]
    /\ \E ew \in ProviderEnvWalletTypes, ek \in ProviderEnvKeys,
          ec \in ProviderEnvChainIds :
            env = [NoSettings EXCEPT !["AIMO_WALLET_TYPE"] = ew,
                                     !["AIMO_PRIVATE_KEY"] = ek,
                                     !["AIMO_CHAIN_ID"] = ec]
    /\ calls = <<>>
    /\ changes = 0
    /\ plugin = PluginLoaded

InitProvider ==
    /\ ProviderSettings
    /\ isBrowser \in BOOLEAN
    /\ input \in [accepts : BOOLEAN]
    /\ pc = "ready"
    /\ output = Return(Undefined)

ApplyCreateAimoRouterProvider ==
    /\ pc = "ready"
    /\ output' = createAimoRouterProvider(store, env, isBrowser, input.accepts)
    /\ pc' = "done"
    /\ UNCHANGED <<machineVars, input>>

NextProvider == ApplyCreateAimoRouterProvider

SpecProvider == InitProvider /\ [][NextProvider]_vars

\* The AIMO_CHAIN_ID setting as the code resolves it
ConfiguredChainId == getSetting(store, env, "AIMO_CHAIN_ID", Undefined)

SignerBuilt == pc = "done" /\ ~output.threw

ReadmeChainIds(walletType) ==
    IF walletType = Str(svm)
    THEN {SOLANA_MAINNET_CHAIN_ID, SOLANA_DEVNET_CHAIN_ID, SOLANA_TESTNET_CHAIN_ID}
    ELSE {EVM_MAINNET_CHAIN_ID, SEPOLIA_CHAIN_ID}

\* C4: with AIMO_CHAIN_ID set to a chain identifier the README lists for the
\* configured wallet family, the signer is constructed with that identifier.
C4_ReadmeChainIdKept ==
    (SignerBuilt /\ ConfiguredChainId.s \in ReadmeChainIds(getWalletType(store, env)))
        => output.val.signer.chainId = ConfiguredChainId.s

MainnetOf(family) ==
    IF family = "svm" THEN SOLANA_MAINNET_CHAIN_ID ELSE EVM_MAINNET_CHAIN_ID

\* C6: with no chain id configured (absent or empty) buildSigner does not call
\* resolveChainId and the signer carries the mainnet identifier of its family;
\* with a chain id configured the signer carries exactly the identifier
\* resolveChainId returns for it.
C6_ChainIdDefaultOrResolved ==
    SignerBuilt =>
        LET signer == output.val.signer
        IN  IF Absent(ConfiguredChainId)
            THEN /\ signer.requested = Undefined
                 /\ signer.chainId = MainnetOf(signer.family)
            ELSE /\ signer.requested =
                        getChainIdForWallet(getWalletType(store, env), ConfiguredChainId.s).val
                 /\ signer.chainId = signer.requested.s

C6_Witness ==
    /\ SignerBuilt
    /\ store["AIMO_CHAIN_ID"] = Str(<<>>)
    /\ env["AIMO_CHAIN_ID"] = Str(SOLANA_DEVNET_CHAIN_ID)
    /\ output.val.signer.family = "svm"
    /\ output.val.signer.requested = Undefined
    /\ output.val.signer.chainId = SOLANA_MAINNET_CHAIN_ID

C6_WitnessConfigured ==
    /\ SignerBuilt
    /\ store["AIMO_CHAIN_ID"] = Num(11155111)
    /\ output.val.signer.family = "evm"
    /\ output.val.signer.chainId = SEPOLIA_CHAIN_ID

\* C17: in a browser (a global document exists) provider creation fails with
\* the browser-not-supported error whatever the settings hold, valid wallet
\* configuration or not: no setting decides the outcome and no signer is
\* built.
C17_BrowserFailsFirst ==
    (pc = "done" /\ isBrowser) => output = Throw(BrowserNotSupported)

\* In a browser, a valid EVM configuration that the key library would accept
C17_Witness ==
    /\ pc = "done"
    /\ isBrowser
    /\ input.accepts
    /\ getWalletType(store, env) = Str(evm)
    /\ getPrivateKey(store, env) = Str(ValidEvmKey)
    /\ output = Throw(BrowserNotSupported)

\* In a browser, no wallet type and no key
C17_WitnessIncomplete ==
    /\ pc = "done"
    /\ isBrowser
    /\ getWalletType(store, env) = Undefined
    /\ getPrivateKey(store, env) = Undefined
    /\ output = Throw(BrowserNotSupported)

\* A setting as the resolver reads it
Resolved(key) == getSetting(store, env, key, Undefined)

\* The errors of createSignerFromConfig's first two checks
MissingWalletType == Err("Wallet type is required (svm or evm)")
MissingPrivateKey == Err("Private key is required")

\* The wallet settings do not resolve to a wallet type (exactly svm or evm)
\* and a private key
Unresolved ==
    \/ Resolved("AIMO_WALLET_TYPE") \notin {Str(svm), Str(evm)}
    \/ Absent(Resolved("AIMO_PRIVATE_KEY"))

\* What a failed provider creation may surface of createSignerFromConfig's
\* validation: the key format error of the resolved wallet type only
OnlyInvalidKeyFormat ==
    output.threw =>
        /\ output.err \notin {MissingWalletType, MissingPrivateKey}
        /\ output.err.message # UnknownWalletType(Undefined).message
        /\ output.err.expectedFormat # ""
                => output.err = InvalidKeyFormat(Resolved("AIMO_WALLET_TYPE"))

C20_WitnessKeyFormat ==
    /\ pc = "done"
    /\ ~isBrowser
    /\ Resolved("AIMO_WALLET_TYPE") = Str(svm)
    /\ Resolved("AIMO_PRIVATE_KEY") = Str(ValidEvmKey)
    /\ output = Throw(InvalidKeyFormat(Str(svm)))

(***************************************************************************)
(* Function application: the startup check, then provider creation         *)
(***************************************************************************)
InitAgree ==
    /\ ProviderSettings
    /\ isBrowser = FALSE
    /\ input \in [accepts : BOOLEAN, startup : {Return(Undefined)}]
    /\ pc = "ready"
    /\ output = Return(Undefined)

\* The startup check; its verdict is kept in input.startup
ApplyValidateWalletConfiguration ==
    /\ pc = "ready"
    /\ input' = [input EXCEPT !.startup = validateWalletConfiguration(store, env).outcome]
    /\ pc' = "checked"
    /\ UNCHANGED <<machineVars, output>>

\* The call-time check on the same settings
ApplyCallTimeCheck ==
    /\ pc = "checked"
    /\ output' = createAimoRouterProvider(store, env, isBrowser, input.accepts)
    /\ pc' = "done"
    /\ UNCHANGED <<machineVars, input>>

NextAgree == ApplyValidateWalletConfiguration \/ ApplyCallTimeCheck

SpecAgree == InitAgree /\ [][NextAgree]_vars

\* Provider creation got past getSignerConfig and the three validation steps
\* of createSignerFromConfig
PassedValidation(outcome) ==
    \/ ~outcome.threw
    \/ outcome.err \notin {IncompleteConfiguration, MissingWalletType, MissingPrivateKey,
                            InvalidKeyFormat(Str(svm)), InvalidKeyFormat(Str(evm))}

WithoutChainId(settings) == [settings EXCEPT !["AIMO_CHAIN_ID"] = Undefined]

\* C19: the startup check and the call-time check agree: for every
\* combination of settings validateWalletConfiguration returns true exactly
\* when provider creation outside a browser passes resolveSignerConfig and
\* buildSigner's validation steps; the configured chain id changes neither
\* verdict.
C19_StartupAndCallTimeAgree ==
    /\ pc = "done" =>
            /\ Truthy(input.startup.val) <=> PassedValidation(output)
            /\ PassedValidation(output) <=>
                    PassedValidation(createAimoRouterProvider(
                        WithoutChainId(store), WithoutChainId(env), isBrowser, input.accepts))
    /\ pc \in {"checked", "done"} =>
            /\ input.startup.val.t = "boolean"
            /\ input.startup =
                    validateWalletConfiguration(WithoutChainId(store), WithoutChainId(env)).outcome

\* Both checks refuse an SVM wallet with an EVM key
C19_Witness ==
    /\ pc = "done"
    /\ Resolved("AIMO_WALLET_TYPE") = Str(svm)
    /\ Resolved("AIMO_PRIVATE_KEY") = Str(ValidEvmKey)
    /\ input.startup = Return(Bool(FALSE))
    /\ output = Throw(InvalidKeyFormat(Str(svm)))

\* Both checks pass an EVM wallet with its key, a chain id configured, though
\* the key library then refuses the key
C19_WitnessPassed ==
    /\ pc = "done"
    /\ Resolved("AIMO_WALLET_TYPE") = Str(evm)
    /\ Resolved("AIMO_PRIVATE_KEY") = Str(ValidEvmKey)
    /\ Resolved("AIMO_CHAIN_ID") = Str(SEPOLIA_CHAIN_ID)
    /\ ~input.accepts
    /\ input.startup = Return(Bool(TRUE))
    /\ output.threw

(***************************************************************************)
(* Function application: getSignerConfig, called twice                     *)
(***************************************************************************)
NoConfig == [first |-> Undefined]

InitConfig ==
    /\ ProviderSettings
    /\ isBrowser = FALSE
    /\ input = NoConfig
    /\ pc = "ready"
    /\ output = Return(Undefined)

ApplyGetSignerConfig ==
    /\ pc = "ready"
    /\ output' = Return(getSignerConfig(store, env))
    /\ pc' = "resolved"
    /\ UNCHANGED <<machineVars, input>>

\* A second call, the settings unchanged; the first result is kept in input
ApplyGetSignerConfigAgain ==
    /\ pc = "resolved"
    /\ input' = [first |-> output.val]
    /\ output' = Return(getSignerConfig(store, env))
    /\ pc' = "resolvedAgain"
    /\ UNCHANGED machineVars

NextConfig == ApplyGetSignerConfig \/ ApplyGetSignerConfigAgain

SpecConfig == InitConfig /\ [][NextConfig]_vars

\* C11: resolveSignerConfig returns none exactly when the wallet type (exactly
\* svm or evm) or the private key is unresolved, and otherwise the resolved
\* wallet type, private key and optional chain id, whatever the key's format;
\* a second call with unchanged settings returns a value-equal result.
C11_SignerConfigOfSettings ==
    /\ pc \in {"resolved", "resolvedAgain"} =>
            IF Resolved("AIMO_WALLET_TYPE") \notin {Str(svm), Str(evm)}
               \/ Absent(Resolved("AIMO_PRIVATE_KEY"))
            THEN output.val = Undefined
            ELSE output.val =
                    SignerConfig(Resolved("AIMO_WALLET_TYPE"),
                                 Resolved("AIMO_PRIVATE_KEY"),
                                 IF Absent(Resolved("AIMO_CHAIN_ID")) THEN Undefined
                                 ELSE Resolved("AIMO_CHAIN_ID"))
    /\ pc = "resolvedAgain" => output.val = input.first

\* A config is returned twice for an EVM wallet whose key is too short
C11_Witness ==
    /\ pc = "resolvedAgain"
    /\ output.val = SignerConfig(Str(evm), Str(ShortEvmKey), Str(s11155111))
    /\ input.first = output.val

\* None is returned for a wallet type that is not exactly svm or evm
C11_WitnessNone ==
    /\ pc = "resolvedAgain"
    /\ Resolved("AIMO_WALLET_TYPE") = Str(<<"S","V","M">>)
    /\ Resolved("AIMO_PRIVATE_KEY") = Str(ValidSvmKey)
    /\ output.val = Undefined

(***************************************************************************)
(* Function application: getSmallModel and getLargeModel                   *)
(***************************************************************************)
ModelStoreChoices == {Undefined, Null, Str(<<>>), Str(<<"s","1">>), Num(0)}
ModelEnvChoices == {Undefined, Str(<<>>), Str(<<"e","1">>)}

\* The settings of a tier: its own override, the generic override, the default
TierSettings ==
    {[tier |-> "small", specific |-> "AIMO_SMALL_MODEL", generic |-> "SMALL_MODEL",
      default |-> Gpt4oMini],
     [tier |-> "large", specific |-> "AIMO_LARGE_MODEL", generic |-> "LARGE_MODEL",
      default |-> Gpt4o]}

InitModel ==
    /\ input \in TierSettings
    /\ \E ss \in ModelStoreChoices, sg \in ModelStoreChoices :
            store = [NoSettings EXCEPT ![input.specific] = ss, ![input.generic] = sg]
    /\ \E es \in ModelEnvChoices, eg \in ModelEnvChoices :
            env = [NoSettings EXCEPT ![input.specific] = es, ![input.generic] = eg]
    /\ isBrowser = FALSE
    /\ calls = <<>>
    /\ changes = 0
    /\ plugin = PluginLoaded
    /\ pc = "ready"
    /\ output = Return(Undefined)

ApplyGetSmallModel ==
    /\ pc = "ready"
    /\ input.tier = "small"
    /\ output' = Return(getSmallModel(store, env))
    /\ pc' = "done"
    /\ UNCHANGED <<machineVars, input>>

ApplyGetLargeModel ==
    /\ pc = "ready"
    /\ input.tier = "large"
    /\ output' = Return(getLargeModel(store, env))
    /\ pc' = "done"
    /\ UNCHANGED <<machineVars, input>>

NextModel == ApplyGetSmallModel \/ ApplyGetLargeModel

SpecModel == InitModel /\ [][NextModel]_vars

\* The tier-specific override, else the generic override, else the default
ModelNameByPrecedence ==
    IF Resolved(input.specific) # Undefined THEN Resolved(input.specific)
    ELSE IF Resolved(input.generic) # Undefined THEN Resolved(input.generic)
    ELSE Str(input.default)

\* The model name follows the precedence, a setting counting as set when
\* the resolver returns a value for it (an empty string included).
ModelNamePrecedence == pc = "done" => output.val = ModelNameByPrecedence

\* C12: resolveModelName(tier) returns the tier-specific override when it is
\* set, otherwise the generic override when it is set, otherwise the literal
\* default of the tier; the result is always a usable (non-empty) model
\* identifier.
C12_ModelNameFallback ==
    pc = "done" =>
        /\ output.val = ModelNameByPrecedence
        /\ output.val.t = "string"
        /\ output.val.s # <<>>

(***************************************************************************)
(* Function application: the embedding and image handlers                  *)
(***************************************************************************)
EmbeddingKeys == {"AIMO_EMBEDDING_DIMENSIONS", "EMBEDDING_DIMENSIONS"}
WalletKeys == {"AIMO_WALLET_TYPE", "AIMO_PRIVATE_KEY", "AIMO_CHAIN_ID", "AIMO_BASE_URL"}

StubStoreDimensions == {Undefined, Num(384), Str(<<"1","0","0">>)}
StubEnvSpecificDimensions == {Undefined, Str(<<"7","6","8","p","x">>)}
StubEnvGenericDimensions ==
    {Undefined, Str(<<"3","0","7","2">>), Str(<<"a","b","c">>), Str(<<>>)}

EmbeddingParams ==
    {Null, Str(<<"h","i">>), Str(<<" ","\n">>), Str(<<>>), Num(7),
     ObjectParams([text |-> Str(<<"h","i">>)]), ObjectParams([text |-> Str(<<>>)]),
     ObjectParams(<<>>)}

ImageDescriptionParams ==
    {Str(<<"u","r","l">>), Str(<<>>), ObjectParams([imageUrl |-> Str(<<"u","r","l">>)]),
     ObjectParams(<<>>)}

ImageGenerationParams == {ObjectParams([prompt |-> Str(<<"c","a","t">>)]), ObjectParams(<<>>)}

StubInputs ==
    {[handler |-> "TEXT_EMBEDDING", params |-> p] : p \in EmbeddingParams}
    \cup {[handler |-> "IMAGE_DESCRIPTION", params |-> p] : p \in ImageDescriptionParams}
    \cup {[handler |-> "IMAGE", params |-> p] : p \in ImageGenerationParams}

InitStub ==
    /\ \E sd \in StubStoreDimensions :
            store = [k \in Keys \cup EmbeddingKeys |->
                        IF k = "AIMO_EMBEDDING_DIMENSIONS" THEN sd ELSE Undefined]
    /\ \E es \in StubEnvSpecificDimensions, eg \in StubEnvGenericDimensions,
          ew \in {Undefined, Str(evm)} :
            env = [k \in Keys \cup EmbeddingKeys |->
                        IF k = "AIMO_EMBEDDING_DIMENSIONS" THEN es
                        ELSE IF k = "EMBEDDING_DIMENSIONS" THEN eg
                        ELSE IF k = "AIMO_WALLET_TYPE" THEN ew
                        ELSE IF k = "AIMO_PRIVATE_KEY" /\ ew # Undefined THEN Str(ValidEvmKey)
                        ELSE Undefined]
    /\ isBrowser = FALSE
    /\ calls = <<>>
    /\ changes = 0
    /\ plugin = PluginLoaded
    /\ input \in StubInputs
    /\ pc = "ready"
    /\ output = Handled(Return(Undefined), <<>>, {})

ApplyHandleTextEmbedding ==
    /\ pc = "ready"
    /\ input.handler = "TEXT_EMBEDDING"
    /\ output' = handleTextEmbedding(store, env, input.params)
    /\ pc' = "done"
    /\ UNCHANGED <<machineVars, input>>

ApplyHandleImageDescription ==
    /\ pc = "ready"
    /\ input.handler = "IMAGE_DESCRIPTION"
    /\ output' = handleImageDescription(input.params)
    /\ pc' = "done"
    /\ UNCHANGED <<machineVars, input>>

ApplyHandleImageGeneration ==
    /\ pc = "ready"
    /\ input.handler = "IMAGE"
    /\ output' = handleImageGeneration(input.params)
    /\ pc' = "done"
    /\ UNCHANGED <<machineVars, input>>

NextStub ==
    \/ ApplyHandleTextEmbedding
    \/ ApplyHandleImageDescription
    \/ ApplyHandleImageGeneration

SpecStub == InitStub /\ [][NextStub]_vars

\* The placeholder or empty value of a handler
IsPlaceholder(handler, value) ==
    CASE handler = "TEXT_EMBEDDING" ->
            value.t = "vector" /\ value.length \in VECTOR_DIMS
      [] handler = "IMAGE_DESCRIPTION" ->
            value.t = "description" /\ value.title = "Image Analysis Not Supported"
      [] OTHER -> value.t = "array" /\ value.length = 0

\* The stub never touches the wallet settings: no signer config is resolved
NoWalletSettingRead == output.settingsRead \cap WalletKeys = {}

\* The image handlers are stubs for every input
ImageHandlersAreStubs ==
    (pc = "done" /\ input.handler # "TEXT_EMBEDDING") =>
        /\ ~output.outcome.threw
        /\ IsPlaceholder(input.handler, output.outcome.val)
        /\ "warn" \in {output.log[i].level : i \in DOMAIN output.log}
        /\ NoWalletSettingRead

\* C16: the image description, image generation and text embedding handlers
\* are stubs: for every input each returns its placeholder or empty value and
\* logs a warning, never raises an error, and never resolves a signer config,
\* builds a signer or contacts the provider.
C16_HandlersAreStubs ==
    pc = "done" =>
        /\ ~output.outcome.threw
        /\ IsPlaceholder(input.handler, output.outcome.val)
        /\ "warn" \in {output.log[i].level : i \in DOMAIN output.log}
        /\ NoWalletSettingRead

(***************************************************************************)
(* The plugin serving model calls: index.ts models, models/text.ts,        *)
(* models/object.ts                                                        *)
(***************************************************************************)
\* Calls the runtime has in flight at most
MaxCalls == 2
\* Changes the host makes to the runtime settings at most
MaxChanges == 1

CallIds == 1..MaxCalls

TextModelTypes == {"TEXT_SMALL", "TEXT_LARGE"}
ObjectModelTypes == {"OBJECT_SMALL", "OBJECT_LARGE"}
SmallModelTypes == {"TEXT_SMALL", "OBJECT_SMALL"}

\* One model call: where the handler stands (pc), its arguments (modelType,
\* stream), the wallet type and key it resolved when it started, the settled
\* provider promise (aimoProvider), the signer and provider client it holds,
\* the model name it resolved, the SDK function it called (sdk), whether the
\* SDK reported a usage (usage: none so far, reported, absent or rejected), the
\* usage events it emitted and what the handler's promise settled with
\* (result).
IdleCall ==
    [pc |-> "idle", modelType |-> "", stream |-> FALSE,
     walletType |-> Undefined, privateKey |-> Undefined,
     aimoProvider |-> Return(Undefined), signer |-> Undefined, provider |-> Undefined,
     modelName |-> Undefined, sdk |-> "none", usage |-> "none", usageEvents |-> 0,
     result |-> Return(Undefined)]

\* Deployments: what process.env holds when the plugin is loaded
EnvWalletTypes == {Undefined, Str(svm), Str(evm)}
EnvKeys == {Undefined, Str(ShortEvmKey), Str(ValidEvmKey), Str(LeadingZeroSvmKey)}

\* Settings the host may change while the plugin runs
SettingChanges ==
    {<<"AIMO_WALLET_TYPE", Str(svm)>>, <<"AIMO_WALLET_TYPE", Str(evm)>>,
     <<"AIMO_WALLET_TYPE", Str(<<>>)>>,
     <<"AIMO_PRIVATE_KEY", Str(ValidEvmKey)>>, <<"AIMO_PRIVATE_KEY", Str(ShortEvmKey)>>,
     <<"AIMO_CHAIN_ID", Str(devnet)>>,
     <<"AIMO_SMALL_MODEL", Str(<<"m">>)>>, <<"LARGE_MODEL", Str(<<"L">>)>>}

Init ==
    /\ store = NoSettings
    /\ \E w \in EnvWalletTypes, k \in EnvKeys :
            env = [NoSettings EXCEPT !["AIMO_WALLET_TYPE"] = w,
                                     !["AIMO_PRIVATE_KEY"] = k]
    /\ isBrowser \in BOOLEAN
    /\ calls = [c \in CallIds |-> IdleCall]
    /\ changes = 0
    /\ plugin = PluginLoaded
    /\ pc = "serving"
    /\ input = Undefined
    /\ output = Return(Undefined)

\* The host sets a runtime setting (what runtime.getSetting answers)
SetSetting ==
    /\ changes < MaxChanges
    /\ \E ch \in SettingChanges : store' = [store EXCEPT ![ch[1]] = ch[2]]
    /\ changes' = changes + 1
    /\ UNCHANGED <<env, isBrowser, calls, plugin, pc, input, output>>

\* The runtime calls the plugin's init hook (index.ts init): the hook calls
\* initializeAimoRouter and its promise settles with what that call did.
InitializePlugin ==
    /\ plugin.pc = "loaded"
    /\ LET done == initializeAimoRouter(store, env)
       IN  plugin' = [pc |-> "initialized",
                      walletType |-> getWalletType(store, env),
                      privateKey |-> getPrivateKey(store, env),
                      log |-> done.log,
                      result |-> done.outcome]
    /\ UNCHANGED <<store, env, isBrowser, calls, changes, pc, input, output>>

\* HandleModelCall reusing the provider promise of the first call once that
\* call has started, instead of reading the settings again
HandleModelCall_Cached(c) ==
    /\ plugin.pc = "initialized"
    /\ calls[c].pc = "idle"
    /\ \A d \in CallIds : d < c => calls[d].pc # "idle"
    /\ \E accepts \in BOOLEAN :
        LET aimoProvider == IF c = 1
                            THEN createAimoRouterProvider(store, env, isBrowser, accepts)
                            ELSE calls[1].aimoProvider
        IN  \E modelType \in TextModelTypes \cup ObjectModelTypes, stream \in BOOLEAN :
                /\ stream => modelType \in TextModelTypes
                /\ calls' = [calls EXCEPT ![c] =
                        [@ EXCEPT !.pc = "awaitProvider",
                                  !.modelType = modelType,
                                  !.stream = stream,
                                  !.walletType = getWalletType(store, env),
                                  !.privateKey = getPrivateKey(store, env),
                                  !.aimoProvider = aimoProvider]]
    /\ UNCHANGED <<store, env, isBrowser, changes, plugin, pc, input, output>>

\* The runtime calls a text or object handler.  The handler runs up to its
\* first suspension: createAimoRouterProvider reads the settings and, when
\* they pass its checks, hands the key to the key library.
HandleModelCall(c) ==
    /\ plugin.pc = "initialized"
    /\ calls[c].pc = "idle"
    /\ \A d \in CallIds : d < c => calls[d].pc # "idle"
    /\ \E accepts \in BOOLEAN :
        LET aimoProvider == createAimoRouterProvider(store, env, isBrowser, accepts)
        IN  \E modelType \in TextModelTypes \cup ObjectModelTypes, stream \in BOOLEAN :
                /\ stream => modelType \in TextModelTypes
                /\ calls' = [calls EXCEPT ![c] =
                        [@ EXCEPT !.pc = "awaitProvider",
                                  !.modelType = modelType,
                                  !.stream = stream,
                                  !.walletType = getWalletType(store, env),
                                  !.privateKey = getPrivateKey(store, env),
                                  !.aimoProvider = aimoProvider]]
    /\ UNCHANGED <<store, env, isBrowser, changes, plugin, pc, input, output>>

\* A text handler that calls generateText whether or not stream is set
SdkFunction_NeverStreams(call) ==
    IF call.modelType \in ObjectModelTypes THEN "generateObject" ELSE "generateText"

\* The SDK function a handler calls once it holds the provider
SdkFunction(call) ==
    IF call.modelType \in ObjectModelTypes THEN "generateObject"
    ELSE IF call.stream THEN "streamText" ELSE "generateText"

\* The provider promise settles.  Rejected: the handler rejects with the same
\* error.  Fulfilled: the handler resolves the model name from the settings
\* as they are now and calls the SDK.
ProviderSettled(c) ==
    /\ calls[c].pc = "awaitProvider"
    /\ calls' = [calls EXCEPT ![c] =
            IF calls[c].aimoProvider.threw
            THEN [@ EXCEPT !.pc = "failed", !.result = Throw(calls[c].aimoProvider.err)]
            ELSE [@ EXCEPT !.pc = "awaitSdk",
                           !.signer = calls[c].aimoProvider.val.signer,
                           !.provider = calls[c].aimoProvider.val,
                           !.modelName = IF calls[c].modelType \in SmallModelTypes
                                         THEN getSmallModel(store, env)
                                         ELSE getLargeModel(store, env),
                           !.sdk = SdkFunction(calls[c])]]
    /\ UNCHANGED <<store, env, isBrowser, changes, plugin, pc, input, output>>

ResponseText == <<"o","k">>
\* What the SDK may reject with
SdkErrors ==
    {SdkError("Error", "request failed", <<>>),
     SdkError("value", "boom", <<>>),
     SdkError("JSONParseError", "parse", FenceJson \o <<"{","\"","a","\"",":","1","}">> \o NewlineFence),
     SdkError("JSONParseError", "parse", Fence \o <<"[","]">> \o Fence),
     SdkError("JSONParseError", "parse", <<"{","o","o","p","s">>),
     SdkError("JSONParseError", "parse", Fence)}

\* generateText settles (text.ts 112-118)
GenerateTextSettled(c) ==
    /\ calls[c].pc = "awaitSdk"
    /\ calls[c].sdk = "generateText"
    /\ \/ \E usage \in BOOLEAN :
            calls' = [calls EXCEPT ![c] =
                [@ EXCEPT !.pc = "done",
                          !.usage = IF usage THEN "reported" ELSE "absent",
                          !.usageEvents = @ + (IF usage THEN 1 ELSE 0),
                          !.result = Return(Str(ResponseText))]]
       \/ \E error \in {e \in SdkErrors : e.class = "Error"} :
            calls' = [calls EXCEPT ![c] =
                [@ EXCEPT !.pc = "failed", !.result = Throw(error)]]
    /\ UNCHANGED <<store, env, isBrowser, changes, plugin, pc, input, output>>

TextStreamResult ==
    [t |-> "TextStreamResult", fields |-> {"textStream", "text", "usage", "finishReason"}]

\* streamText settles and the handler returns the stream result, its usage
\* still pending (text.ts 63-82)
StreamTextSettled(c) ==
    /\ calls[c].pc = "awaitSdk"
    /\ calls[c].sdk = "streamText"
    /\ \/ calls' = [calls EXCEPT ![c] =
                [@ EXCEPT !.pc = "streaming", !.result = Return(TextStreamResult)]]
       \/ \E error \in {e \in SdkErrors : e.class = "Error"} :
            calls' = [calls EXCEPT ![c] =
                [@ EXCEPT !.pc = "failed", !.result = Throw(error)]]
    /\ UNCHANGED <<store, env, isBrowser, changes, plugin, pc, input, output>>

\* streamResult.usage settles with a usage or with undefined, or is rejected
\* and the then-callback does not run (text.ts 68-80)
UsageSettled(c) ==
    /\ calls[c].pc = "streaming"
    /\ \E usage \in {"reported", "absent", "rejected"} :
            calls' = [calls EXCEPT ![c] =
                [@ EXCEPT !.pc = "done",
                          !.usage = usage,
                          !.usageEvents = @ + (IF usage = "reported" THEN 1 ELSE 0)]]
    /\ UNCHANGED <<store, env, isBrowser, changes, plugin, pc, input, output>>

GeneratedObject == [t |-> "object", s |-> <<"{","}">>, n |-> 0]

\* generateObject settles (object.ts 36-51)
GenerateObjectSettled(c) ==
    /\ calls[c].pc = "awaitSdk"
    /\ calls[c].sdk = "generateObject"
    /\ \/ \E usage \in BOOLEAN :
            calls' = [calls EXCEPT ![c] =
                [@ EXCEPT !.pc = "done",
                          !.usage = IF usage THEN "reported" ELSE "absent",
                          !.usageEvents = @ + (IF usage THEN 1 ELSE 0),
                          !.result = Return(GeneratedObject)]]
       \/ \E error \in SdkErrors :
            LET handled == handleObjectGenerationError(error)
            IN  calls' = [calls EXCEPT ![c] =
                    [@ EXCEPT !.pc = IF handled.threw THEN "failed" ELSE "done",
                              !.result = handled]]
    /\ UNCHANGED <<store, env, isBrowser, changes, plugin, pc, input, output>>

Next ==
    \/ InitializePlugin
    \/ SetSetting
    \/ \E c \in CallIds : HandleModelCall(c)
    \/ \E c \in CallIds : ProviderSettled(c)
    \/ \E c \in CallIds : GenerateTextSettled(c)
    \/ \E c \in CallIds : StreamTextSettled(c)
    \/ \E c \in CallIds : UsageSettled(c)
    \/ \E c \in CallIds : GenerateObjectSettled(c)

Spec == Init /\ [][Next]_vars

\* Whether a key has the format of a wallet family, as KeyChoices states it
HasFormatOf(privateKey, walletType) ==
    \E kc \in KeyChoices : kc.k = privateKey /\ walletType \in kc.validFor

\* The configuration a call resolved cannot give a signer
InvalidConfiguration(call) ==
    \/ ~Truthy(call.walletType)
    \/ Absent(call.privateKey)
    \/ ~HasFormatOf(call.privateKey, call.walletType)

DescriptiveErrors ==
    {BrowserNotSupported, IncompleteConfiguration,
     InvalidKeyFormat(Str(svm)), InvalidKeyFormat(Str(evm))}

\* C1: on every path through a text or object model call, when the resolved
\* wallet type is absent, the private key is absent, or the key fails the
\* format check of its wallet family, no signer is constructed, no provider
\* client is built and no generation SDK call is issued; the call fails with
\* a descriptive error.
C1_InvalidConfigFailsFirst ==
    \A c \in CallIds :
        (calls[c].pc # "idle" /\ InvalidConfiguration(calls[c])) =>
            /\ calls[c].aimoProvider.threw
            /\ calls[c].aimoProvider.err \in DescriptiveErrors
            /\ calls[c].signer = Undefined
            /\ calls[c].provider = Undefined
            /\ calls[c].sdk = "none"
            /\ calls[c].usageEvents = 0
            /\ calls[c].pc \in {"awaitProvider", "failed"}
            /\ calls[c].pc = "failed" => calls[c].result = Throw(calls[c].aimoProvider.err)

\* An object call with a too short EVM key has failed with the key format
\* error while another call, started after the key was corrected, reached the
\* SDK.
C1_Witness ==
    /\ ~isBrowser
    /\ calls[1].pc = "failed"
    /\ calls[1].modelType \in ObjectModelTypes
    /\ calls[1].walletType = Str(evm)
    /\ calls[1].privateKey = Str(ShortEvmKey)
    /\ calls[1].result = Throw(InvalidKeyFormat(Str(evm)))
    /\ calls[2].pc = "awaitSdk"
    /\ calls[2].sdk = "generateText"

\* A text call with no wallet type has failed with the configuration error
C1_WitnessNoWalletType ==
    /\ ~isBrowser
    /\ calls[1].pc = "failed"
    /\ calls[1].modelType \in TextModelTypes
    /\ calls[1].walletType = Undefined
    /\ calls[1].privateKey = Str(LeadingZeroSvmKey)
    /\ calls[1].result = Throw(IncompleteConfiguration)

LogLevels(log) == {log[i].level : i \in DOMAIN log}

\* C13: plugin initialization always completes without raising an error: an
\* invalid or incomplete wallet configuration at startup only produces logged
\* warnings, and a text or object call made while the configuration is
\* invalid fails at call time.
C13_InitNeverRaises ==
    /\ plugin.pc = "initialized" =>
            /\ ~plugin.result.threw
            /\ InvalidConfiguration(plugin) =>
                    /\ "warn" \in LogLevels(plugin.log)
                    /\ LogLevels(plugin.log) \subseteq {"info", "warn"}
            /\ ~InvalidConfiguration(plugin) => "warn" \notin LogLevels(plugin.log)
    /\ \A c \in CallIds :
            (calls[c].pc # "idle" /\ InvalidConfiguration(calls[c])) =>
                /\ calls[c].aimoProvider.threw
                /\ calls[c].pc # "awaitProvider" =>
                        /\ calls[c].pc = "failed"
                        /\ calls[c].result.threw

\* The plugin started with no private key and logged warnings; an object
\* call made with the key still missing has failed.
C13_Witness ==
    /\ plugin.pc = "initialized"
    /\ plugin.walletType = Str(evm)
    /\ plugin.privateKey = Undefined
    /\ "warn" \in LogLevels(plugin.log)
    /\ ~isBrowser
    /\ calls[1].pc = "failed"
    /\ calls[1].modelType = "OBJECT_LARGE"
    /\ calls[1].privateKey = Undefined
    /\ calls[1].result = Throw(IncompleteConfiguration)

\* C14: nothing is carried from one model call to another or from
\* initialization to a call.  A call that starts reads the settings as they
\* are at that moment and its provider promise is what those settings give;
\* when the promise settles the call holds the signer and provider of its own
\* promise or fails with its own error; a step of one call changes no other
\* call.
C14_NoSharedState ==
    [][\A c \in CallIds :
        /\ (calls[c].pc = "idle" /\ calls'[c].pc # "idle") =>
                /\ calls'[c].walletType = getWalletType(store, env)
                /\ calls'[c].privateKey = getPrivateKey(store, env)
                /\ \E accepts \in BOOLEAN :
                        calls'[c].aimoProvider =
                            createAimoRouterProvider(store, env, isBrowser, accepts)
        /\ (calls[c].pc = "awaitProvider" /\ calls'[c].pc # "awaitProvider") =>
                IF calls[c].aimoProvider.threw
                THEN /\ calls'[c].pc = "failed"
                     /\ calls'[c].result = Throw(calls[c].aimoProvider.err)
                     /\ calls'[c].signer = Undefined
                ELSE /\ calls'[c].provider = calls[c].aimoProvider.val
                     /\ calls'[c].signer = calls[c].aimoProvider.val.signer
        /\ calls'[c] # calls[c] => \A d \in CallIds \ {c} : calls'[d] = calls[d]
      ]_vars

\* The first call got an EVM signer and finished; the wallet type was then
\* emptied and the second call, started after the change, failed.
C14_Witness ==
    /\ ~isBrowser
    /\ calls[1].pc = "done"
    /\ calls[1].signer # Undefined
    /\ calls[1].signer.family = "evm"
    /\ store["AIMO_WALLET_TYPE"] = Str(<<>>)
    /\ calls[2].pc = "failed"
    /\ calls[2].walletType = Undefined
    /\ calls[2].result = Throw(IncompleteConfiguration)

\* The first call failed on a short EVM key; the key was then corrected and
\* the second call holds a signer with the corrected key.
C14_WitnessCorrected ==
    /\ ~isBrowser
    /\ calls[1].pc = "failed"
    /\ calls[1].result = Throw(InvalidKeyFormat(Str(evm)))
    /\ calls[2].pc = "done"
    /\ calls[2].signer # Undefined
    /\ calls[2].signer.privateKey = ValidEvmKey

MaxPieces == 3

\* What a JSONParseError's text is made of
TextPieces ==
    {Fence, FenceJson, NewlineFence, <<"{","}">>, <<"[","1","]">>, <<"{">>, <<"\"">>}

RECURSIVE Concat(_)
Concat(pieces) == IF pieces = <<>> THEN <<>> ELSE Head(pieces) \o Concat(Tail(pieces))

ParseErrorTexts ==
    {Concat(ps) : ps \in UNION {[1..n -> TextPieces] : n \in 0..MaxPieces}}

\* What generateObject may reject with
ObjectSdkErrors ==
    {SdkError("Error", "request failed", <<>>), SdkError("value", "boom", <<>>)}
        \cup {SdkError("JSONParseError", "parse", text) : text \in ParseErrorTexts}

ObjectSdkSettled ==
    {SdkSettled(Return(GeneratedObject), FALSE, "returns"),
     SdkSettled(Return(GeneratedObject), TRUE, "returns"),
     SdkSettled(Return(GeneratedObject), TRUE, "throws")}
        \cup {SdkSettled(Throw(error), FALSE, "returns") : error \in ObjectSdkErrors}

ObjectWallets ==
    {[w |-> Undefined, k |-> Undefined],
     [w |-> Str(evm), k |-> Str(ValidEvmKey)],
     [w |-> Str(svm), k |-> Str(ValidEvmKey)],
     [w |-> Str(svm), k |-> Str(LeadingZeroSvmKey)]}

InitObject ==
    /\ store = NoSettings
    /\ \E wallet \in ObjectWallets :
            env = [NoSettings EXCEPT !["AIMO_WALLET_TYPE"] = wallet.w,
                                     !["AIMO_PRIVATE_KEY"] = wallet.k]
    /\ isBrowser \in BOOLEAN
    /\ calls = <<>>
    /\ changes = 0
    /\ plugin = PluginLoaded
    /\ input \in [accepts : BOOLEAN, sdk : ObjectSdkSettled]
    /\ pc = "ready"
    /\ output = Logged(Return(Undefined), <<>>)

ApplyHandleObjectSmall ==
    /\ pc = "ready"
    /\ output' = handleObjectSmall(store, env, isBrowser, input.accepts, input.sdk)
    /\ pc' = "done"
    /\ UNCHANGED <<machineVars, input>>

ApplyHandleObjectLarge ==
    /\ pc = "ready"
    /\ output' = handleObjectLarge(store, env, isBrowser, input.accepts, input.sdk)
    /\ pc' = "done"
    /\ UNCHANGED <<machineVars, input>>

NextObject == ApplyHandleObjectSmall \/ ApplyHandleObjectLarge

SpecObject == InitObject /\ [][NextObject]_vars

\* Provider creation on the settings of the call
Creation == createAimoRouterProvider(store, env, isBrowser, input.accepts)

\* A JSON parse error whose text parses as JSON once the fences are stripped
Repairable(error) ==
    /\ error.class = "JSONParseError"
    /\ ~JSONparse(StripFences(error.text)).threw

\* The lines of the error handler and of the repair function
RepairPathLines ==
    {FailedToParse, FailedToRepair, SuccessfullyRepaired, RepairFailed, UnknownError}

\* The error is raised to the caller, wrapped in an Error when the thrown
\* value is not one
Raised(outcome, error) ==
    /\ outcome.threw
    /\ IF error.class = "value"
       THEN outcome.err.class = "Error" /\ outcome.err.cause = error
       ELSE outcome.err = error

\* C21: an object handler call returns a value normally only when the SDK
\* call succeeds or when it fails with a JSON parse error whose text, after
\* the code-fence markers are stripped, parses as JSON, and then the parsed
\* value is returned; every other failure is raised to the caller, wrapped in
\* an Error when the thrown value is not one.  An error of provider creation
\* is raised unchanged and never reaches the JSON repair path.
C21_ObjectHandlerOutcome ==
    pc = "done" =>
        LET tried == TryGenerateObject(input.sdk)
        IN  /\ Creation.threw =>
                    /\ output.outcome = Throw(Creation.err)
                    /\ \A i \in DOMAIN output.log : output.log[i] \notin RepairPathLines
            /\ ~output.outcome.threw =>
                    /\ ~Creation.threw
                    /\ ~input.sdk.outcome.threw \/ Repairable(input.sdk.outcome.err)
            /\ (~Creation.threw /\ tried.threw) =>
                    IF Repairable(tried.err)
                    THEN output.outcome = JSONparse(StripFences(tried.err.text))
                    ELSE Raised(output.outcome, tried.err)

\* A fenced object is repaired and returned
C21_Witness ==
    /\ pc = "done"
    /\ ~Creation.threw
    /\ input.sdk.outcome.threw
    /\ input.sdk.outcome.err.class = "JSONParseError"
    /\ input.sdk.outcome.err.text = FenceJson \o <<"{","}">> \o NewlineFence
    /\ output.outcome = Return([t |-> "object", s |-> <<"{","}">>, n |-> 0])

\* A parse error that stays unparseable is raised as it is
C21_WitnessNotRepaired ==
    /\ pc = "done"
    /\ ~Creation.threw
    /\ input.sdk.outcome.threw
    /\ input.sdk.outcome.err.class = "JSONParseError"
    /\ input.sdk.outcome.err.text = Fence \o <<"{">>
    /\ output.outcome = Throw(input.sdk.outcome.err)

\* A thrown value that is not an Error is raised wrapped
C21_WitnessWrapped ==
    /\ pc = "done"
    /\ ~Creation.threw
    /\ input.sdk.outcome = Throw(SdkError("value", "boom", <<>>))
    /\ output.outcome.threw
    /\ output.outcome.err.cause = SdkError("value", "boom", <<>>)

\* The incomplete-configuration error is raised though the SDK would have
\* failed with a repairable parse error
C21_WitnessCreation ==
    /\ pc = "done"
    /\ output.outcome = Throw(IncompleteConfiguration)
    /\ input.sdk.outcome.threw
    /\ Repairable(input.sdk.outcome.err)
    /\ output.log = <<>>

====
